---- MODULE Spec2Model ----
(***************************************************************************)
(* A model of the SSH subsystem of matdoesdev-protocols:                   *)
(*   - the wire codec and the message model (protocols/ssh/protocol.rs),   *)
(*   - the record layer (protocols/ssh/connection.rs),                     *)
(*   - key exchange and key derivation (protocols/ssh/crypto),             *)
(*   - the session state machine (protocols/ssh.rs, fn connection).        *)
(* Octets are the integers 0..255, byte strings are sequences of octets,   *)
(* and text is the sequence of its UTF-8 octets.                           *)
(***************************************************************************)
EXTENDS Integers, Sequences, FiniteSets, TLC

(***************************************************************************)
(* Text literals of the source, as octets.                                 *)
(***************************************************************************)
S_curve25519_sha256 == <<99, 117, 114, 118, 101, 50, 53, 53, 49, 57, 45, 115, 104, 97, 50, 53, 54>>
S_ssh_ed25519 == <<115, 115, 104, 45, 101, 100, 50, 53, 53, 49, 57>>
S_aes128_ctr == <<97, 101, 115, 49, 50, 56, 45, 99, 116, 114>>
S_hmac_sha2_256 == <<104, 109, 97, 99, 45, 115, 104, 97, 50, 45, 50, 53, 54>>
S_none == <<110, 111, 110, 101>>
S_ssh_userauth == <<115, 115, 104, 45, 117, 115, 101, 114, 97, 117, 116, 104>>
S_pty_req == <<112, 116, 121, 45, 114, 101, 113>>
S_window_change == <<119, 105, 110, 100, 111, 119, 45, 99, 104, 97, 110, 103, 101>>
\* "SSH-2.0-matssh_1.0"
server_id == <<83, 83, 72, 45, 50, 46, 48, 45, 109, 97, 116, 115, 115, 104, 95, 49, 46, 48>>
\* "Bye!\r\n"
S_bye == <<66, 121, 101, 33, 13, 10>>

(***************************************************************************)
(* Text the modelled clients send.                                         *)
(***************************************************************************)
S_shell == <<115, 104, 101, 108, 108>>
S_exec == <<101, 120, 101, 99>>
S_session == <<115, 101, 115, 115, 105, 111, 110>>
S_ssh_connection == <<115, 115, 104, 45, 99, 111, 110, 110, 101, 99, 116, 105, 111, 110>>
S_xterm == <<120, 116, 101, 114, 109>>
S_password == <<112, 97, 115, 115, 119, 111, 114, 100>>
S_zlib == <<122, 108, 105, 98>>
S_a == <<97>>
S_b == <<98>>
S_a_comma_b == <<97, 44, 98>>
\* "SSH-2.0-c"
S_client_banner == <<83, 83, 72, 45, 50, 46, 48, 45, 99>>

(***************************************************************************)
(* Octet-level helpers.                                                    *)
(***************************************************************************)
Drop(d, n) == SubSeq(d, n + 1, Len(d))

Take(d, n) == SubSeq(d, 1, n)

Zeros(n) == [i \in 1..n |-> 0]

\* u32::to_be_bytes / write_u32::<BE>
u32_be(n) == <<n \div 16777216, (n \div 65536) % 256, (n \div 256) % 256, n % 256>>

\* u32::from_be_bytes; the top octet is kept below 2^7 by every input of the
\* model, so the value stays inside the checker's integers.
u32_from_be(b) == b[1] * 16777216 + b[2] * 65536 + b[3] * 256 + b[4]

\* String::from_utf8: the well-formed UTF-8 byte sequences of the Unicode
\* standard (table 3-7).
RECURSIVE is_utf8(_)
is_utf8(b) ==
    IF b = <<>> THEN TRUE
    ELSE LET c == b[1]
             cont(i, lo, hi) == Len(b) >= i /\ b[i] >= lo /\ b[i] <= hi
         IN  IF c <= 127 THEN is_utf8(Drop(b, 1))
             ELSE IF c >= 194 /\ c <= 223 THEN cont(2, 128, 191) /\ is_utf8(Drop(b, 2))
             ELSE IF c = 224 THEN cont(2, 160, 191) /\ cont(3, 128, 191) /\ is_utf8(Drop(b, 3))
             ELSE IF (c >= 225 /\ c <= 236) \/ c = 238 \/ c = 239
                  THEN cont(2, 128, 191) /\ cont(3, 128, 191) /\ is_utf8(Drop(b, 3))
             ELSE IF c = 237 THEN cont(2, 128, 159) /\ cont(3, 128, 191) /\ is_utf8(Drop(b, 3))
             ELSE IF c = 240
                  THEN cont(2, 144, 191) /\ cont(3, 128, 191) /\ cont(4, 128, 191)
                       /\ is_utf8(Drop(b, 4))
             ELSE IF c >= 241 /\ c <= 243
                  THEN cont(2, 128, 191) /\ cont(3, 128, 191) /\ cont(4, 128, 191)
                       /\ is_utf8(Drop(b, 4))
             ELSE IF c = 244
                  THEN cont(2, 128, 143) /\ cont(3, 128, 191) /\ cont(4, 128, 191)
                       /\ is_utf8(Drop(b, 4))
             ELSE FALSE

\* str::split(','): the pieces between commas, empty pieces kept.
RECURSIVE split_comma(_)
split_comma(s) ==
    IF \A i \in 1..Len(s) : s[i] # 44 THEN <<s>>
    ELSE LET i == CHOOSE k \in 1..Len(s) : s[k] = 44 /\ \A j \in 1..(k - 1) : s[j] # 44
         IN  <<Take(s, i - 1)>> \o split_comma(Drop(s, i))

\* [String]::join(",")
RECURSIVE join_comma(_)
join_comma(l) ==
    IF l = <<>> THEN <<>>
    ELSE IF Len(l) = 1 THEN l[1]
    ELSE l[1] \o <<44>> \o join_comma(Tail(l))

(***************************************************************************)
(* The wire codec: readers.  A reader takes the state of a parse (whether  *)
(* it is still good, the octets left in the cursor, the values read so     *)
(* far) and returns the next one; a failed read (the `?` of the source)    *)
(* fails every read after it.                                              *)
(***************************************************************************)
Cursor(d) == [ok |-> TRUE, rest |-> d, vals |-> <<>>]

ParseFailed == [ok |-> FALSE, rest |-> <<>>, vals |-> <<>>]

Got(s, n, v) == [ok |-> TRUE, rest |-> Drop(s.rest, n), vals |-> Append(s.vals, v)]

read_u8(s) ==
    IF ~s.ok \/ Len(s.rest) < 1 THEN ParseFailed ELSE Got(s, 1, s.rest[1])

\* data.read_u8()? != 0
read_bool(s) ==
    IF ~s.ok \/ Len(s.rest) < 1 THEN ParseFailed ELSE Got(s, 1, s.rest[1] # 0)

read_u32(s) ==
    IF ~s.ok \/ Len(s.rest) < 4 THEN ParseFailed ELSE Got(s, 4, u32_from_be(s.rest))

read_exact(s, n) ==
    IF ~s.ok \/ Len(s.rest) < n THEN ParseFailed ELSE Got(s, n, Take(s.rest, n))

read_bytes(s) ==
    IF ~s.ok \/ Len(s.rest) < 4 THEN ParseFailed
    ELSE LET length == u32_from_be(s.rest)
         IN  IF Len(s.rest) < 4 + length THEN ParseFailed
             ELSE Got(s, 4 + length, SubSeq(s.rest, 5, 4 + length))

\* String::from_utf8(read_bytes(data)?)?
utf8_checked(r) ==
    IF r.ok /\ is_utf8(r.vals[Len(r.vals)]) THEN r ELSE ParseFailed

read_string(s) == utf8_checked(read_bytes(s))

\* string.split(','), or no name for the empty string
names_of(string) == IF string = <<>> THEN <<>> ELSE split_comma(string)

name_list_checked(r) ==
    IF r.ok THEN [r EXCEPT !.vals[Len(r.vals)] = names_of(@)] ELSE ParseFailed

read_name_list(s) == name_list_checked(read_string(s))

\* One read of the cursor, by the kind of the field read.
read_field(s, kind) ==
    CASE kind = "u8" -> read_u8(s)
      [] kind = "bool" -> read_bool(s)
      [] kind = "u32" -> read_u32(s)
      [] kind = "cookie" -> read_exact(s, 16)
      [] kind = "bytes" -> read_bytes(s)
      [] kind = "string" -> read_string(s)
      [] kind = "name_list" -> read_name_list(s)

\* The reads of one arm of read_message, in the order the arm makes them.
RECURSIVE read_fields(_, _)
read_fields(s, kinds) ==
    IF kinds = <<>> THEN s ELSE read_fields(read_field(s, kinds[1]), Tail(kinds))

(***************************************************************************)
(* The wire codec: writers.                                                *)
(***************************************************************************)
write_bytes(bytes) == u32_be(Len(bytes)) \o bytes

write_string(string) == write_bytes(string)

write_name_list(name_list) == write_string(join_comma(name_list))

write_bool(b) == <<IF b THEN 1 ELSE 0>>

LeadingZeros(s) == Cardinality({i \in 1..Len(s) : \A j \in 1..i : s[j] = 0})

\* write_mpint indexes s[i] after skipping the zero octets: with no non-zero
\* octet the index is out of bounds and the call panics.
write_mpint(s) ==
    LET i == LeadingZeros(s)
    IN  IF i >= Len(s) THEN [panicked |-> TRUE, buf |-> <<>>]
        ELSE IF s[i + 1] >= 128
             THEN [panicked |-> FALSE, buf |-> u32_be(Len(s) - i + 1) \o <<0>> \o Drop(s, i)]
             ELSE [panicked |-> FALSE, buf |-> u32_be(Len(s) - i) \o Drop(s, i)]

(***************************************************************************)
(* The message model: enum Message, one record per variant, the variant's  *)
(* name in `type`.  ChannelRequestExtra is a record with its variant in    *)
(* `kind`.                                                                 *)
(***************************************************************************)
Err == [type |-> "Err"]

ExtraNone == [kind |-> "None"]

ExtraTerminal(terminal_type, width_columns, height_rows, width_pixels, height_pixels, terminal_modes) ==
    [kind |-> "Terminal", terminal_type |-> terminal_type, width_columns |-> width_columns,
     height_rows |-> height_rows, width_pixels |-> width_pixels,
     height_pixels |-> height_pixels, terminal_modes |-> terminal_modes]

ExtraWindowChange(width_columns, height_rows, width_pixels, height_pixels) ==
    [kind |-> "WindowChange", width_columns |-> width_columns, height_rows |-> height_rows,
     width_pixels |-> width_pixels, height_pixels |-> height_pixels]

\* The numeric message IDs of enum Message.
MessageId ==
    [Disconnect |-> 1, Ignore |-> 2, Unimplemented |-> 3, Debug |-> 4, ServiceRequest |-> 5,
     ServiceAccept |-> 6, KexInit |-> 20, NewKeys |-> 21, KexEcdhInit |-> 30,
     KexEcdhReply |-> 31, UserauthRequest |-> 50, UserauthFailure |-> 51,
     UserauthSuccess |-> 52, UserauthBanner |-> 53, GlobalRequest |-> 80,
     RequestSuccess |-> 81, RequestFailure |-> 82, ChannelOpen |-> 90,
     ChannelOpenConfirmation |-> 91, ChannelOpenFailure |-> 92, ChannelWindowAdjust |-> 93,
     ChannelData |-> 94, ChannelExtendedData |-> 95, ChannelEof |-> 96, ChannelClose |-> 97,
     ChannelRequest |-> 98, ChannelSuccess |-> 99, ChannelFailure |-> 100]

MessageTypes == DOMAIN MessageId

KnownIds == {MessageId[t] : t \in MessageTypes}

\* The `?` after the reads of one arm: the variant built from the values read,
\* or the error of the read that failed.
Variant(r, Build(_)) == IF r.ok THEN Build(r.vals) ELSE Err

\* The request-type-dependent trailing fields of a ChannelRequest, read from
\* the cursor where the common fields left it.
read_channel_request_extra(s, request_type) ==
    IF request_type = S_pty_req
    THEN Variant(read_fields([s EXCEPT !.vals = <<>>],
                             <<"string", "u32", "u32", "u32", "u32", "bytes">>),
                 LAMBDA v : ExtraTerminal(v[1], v[2], v[3], v[4], v[5], v[6]))
    ELSE IF request_type = S_window_change
    THEN Variant(read_fields([s EXCEPT !.vals = <<>>], <<"u32", "u32", "u32", "u32">>),
                 LAMBDA v : ExtraWindowChange(v[1], v[2], v[3], v[4]))
    ELSE ExtraNone

\* A ChannelRequest from its common fields and its trailing fields.
channel_request(v, extra) ==
    IF extra = Err THEN Err
    ELSE [type |-> "ChannelRequest", recipient_channel |-> v[1], request_type |-> v[2],
          want_reply |-> v[3], extra |-> extra]

\* The ChannelRequest arm of read_message, after its common fields are read.
read_channel_request(r) ==
    IF r.ok THEN channel_request(r.vals, read_channel_request_extra(r, r.vals[2])) ELSE Err

\* A read_message that takes an ID that is no variant's for a message to skip.
read_unknown_message_type_skipped(message_type) == [type |-> "Ignore", data |-> <<>>]

\* What read_message does with an ID that is no variant's: bail!.
read_unknown_message_type(message_type) == Err

\* The arms of read_message's match on the message type, s the cursor after
\* the type octet.
read_message_body(message_type, s) ==
    CASE message_type = 1 ->
            Variant(read_fields(s, <<"u32", "string", "string">>),
                    LAMBDA v :
                        [type |-> "Disconnect", reason_code |-> v[1],
                              description |-> v[2], language_tag |-> v[3]])
      [] message_type = 2 ->
            Variant(read_fields(s, <<"bytes">>),
                    LAMBDA v :
                        [type |-> "Ignore", data |-> v[1]])
      [] message_type = 3 ->
            Variant(read_fields(s, <<"u32">>),
                    LAMBDA v :
                        [type |-> "Unimplemented", packet_sequence_number |-> v[1]])
      [] message_type = 4 ->
            Variant(read_fields(s, <<"bool", "string", "string">>),
                    LAMBDA v :
                        [type |-> "Debug", always_display |-> v[1], message |-> v[2],
                              language_tag |-> v[3]])
      [] message_type = 5 ->
            Variant(read_fields(s, <<"string">>),
                    LAMBDA v :
                        [type |-> "ServiceRequest", service_name |-> v[1]])
      [] message_type = 6 ->
            Variant(read_fields(s, <<"string">>),
                    LAMBDA v :
                        [type |-> "ServiceAccept", service_name |-> v[1]])
      [] message_type = 20 ->
            Variant(read_fields(s, <<"cookie", "name_list", "name_list", "name_list",
                                "name_list", "name_list", "name_list", "name_list",
                                "name_list", "name_list", "name_list", "bool", "u32">>),
                    LAMBDA v :
                        [type |-> "KexInit", cookie |-> v[1], kex_algorithms |-> v[2],
                              server_host_key_algorithms |-> v[3],
                              encryption_algorithms_client_to_server |-> v[4],
                              encryption_algorithms_server_to_client |-> v[5],
                              mac_algorithms_client_to_server |-> v[6],
                              mac_algorithms_server_to_client |-> v[7],
                              compression_algorithms_client_to_server |-> v[8],
                              compression_algorithms_server_to_client |-> v[9],
                              languages_client_to_server |-> v[10],
                              languages_server_to_client |-> v[11],
                              first_kex_packet_follows |-> v[12], reserved |-> v[13]])
      [] message_type = 21 -> [type |-> "NewKeys"]
      [] message_type = 30 ->
            Variant(read_fields(s, <<"bytes">>),
                    LAMBDA v :
                        [type |-> "KexEcdhInit", client_public_key |-> v[1]])
      [] message_type = 31 ->
            Variant(read_fields(s, <<"bytes", "bytes", "bytes">>),
                    LAMBDA v :
                        [type |-> "KexEcdhReply", server_public_host_key |-> v[1],
                              server_public_key |-> v[2], signature |-> v[3]])
      [] message_type = 50 ->
            Variant(read_fields(s, <<"string", "string", "string">>),
                    LAMBDA v :
                        [type |-> "UserauthRequest", username |-> v[1],
                              service_name |-> v[2], authentication_method |-> v[3]])
      [] message_type = 51 ->
            Variant(read_fields(s, <<"name_list", "bool">>),
                    LAMBDA v :
                        [type |-> "UserauthFailure", authentication_methods |-> v[1],
                              partial_success |-> v[2]])
      [] message_type = 52 -> [type |-> "UserauthSuccess"]
      [] message_type = 53 ->
            Variant(read_fields(s, <<"string", "string">>),
                    LAMBDA v :
                        [type |-> "UserauthBanner", message |-> v[1],
                              language_tag |-> v[2]])
      [] message_type = 80 ->
            Variant(read_fields(s, <<"string", "bool">>),
                    LAMBDA v :
                        [type |-> "GlobalRequest", request_name |-> v[1],
                              want_reply |-> v[2]])
      [] message_type = 81 -> [type |-> "RequestSuccess"]
      [] message_type = 82 -> [type |-> "RequestFailure"]
      [] message_type = 90 ->
            Variant(read_fields(s, <<"string", "u32", "u32", "u32">>),
                    LAMBDA v :
                        [type |-> "ChannelOpen", channel_type |-> v[1],
                              sender_channel |-> v[2], initial_window_size |-> v[3],
                              maximum_packet_size |-> v[4]])
      [] message_type = 91 ->
            Variant(read_fields(s, <<"u32", "u32", "u32", "u32">>),
                    LAMBDA v :
                        [type |-> "ChannelOpenConfirmation",
                              recipient_channel |-> v[1], sender_channel |-> v[2],
                              initial_window_size |-> v[3], maximum_packet_size |-> v[4]])
      [] message_type = 92 ->
            Variant(read_fields(s, <<"u32", "u32", "string", "string">>),
                    LAMBDA v :
                        [type |-> "ChannelOpenFailure", recipient_channel |-> v[1],
                              reason_code |-> v[2], description |-> v[3],
                              language_tag |-> v[4]])
      [] message_type = 93 ->
            Variant(read_fields(s, <<"u32", "u32">>),
                    LAMBDA v :
                        [type |-> "ChannelWindowAdjust", recipient_channel |-> v[1],
                              bytes_to_add |-> v[2]])
      [] message_type = 94 ->
            Variant(read_fields(s, <<"u32", "bytes">>),
                    LAMBDA v :
                        [type |-> "ChannelData", recipient_channel |-> v[1],
                              data |-> v[2]])
      [] message_type = 95 ->
            Variant(read_fields(s, <<"u32", "u32", "bytes">>),
                    LAMBDA v :
                        [type |-> "ChannelExtendedData", recipient_channel |-> v[1],
                              data_type_code |-> v[2], data |-> v[3]])
      [] message_type = 96 ->
            Variant(read_fields(s, <<"u32">>),
                    LAMBDA v :
                        [type |-> "ChannelEof", recipient_channel |-> v[1]])
      [] message_type = 97 ->
            Variant(read_fields(s, <<"u32">>),
                    LAMBDA v :
                        [type |-> "ChannelClose", recipient_channel |-> v[1]])
      [] message_type = 98 ->
                 read_channel_request(read_fields(s, <<"u32", "string", "bool">>))
      [] message_type = 99 ->
            Variant(read_fields(s, <<"u32">>),
                    LAMBDA v :
                        [type |-> "ChannelSuccess", recipient_channel |-> v[1]])
      [] message_type = 100 ->
            Variant(read_fields(s, <<"u32">>),
                    LAMBDA v :
                        [type |-> "ChannelFailure", recipient_channel |-> v[1]])
      [] OTHER -> read_unknown_message_type(message_type)

\* read_message: the message type octet, then the variant's fields.
read_message_typed(t) ==
    IF t.ok THEN read_message_body(t.vals[1], [t EXCEPT !.vals = <<>>]) ELSE Err

read_message(data) == read_message_typed(read_u8(Cursor(data)))

\* The trailing fields write_message appends to a ChannelRequest; the arm for
\* ChannelRequestExtra::None is todo!(), which panics.
write_channel_request_extra(extra) ==
    CASE extra.kind = "Terminal" ->
            [panicked |-> FALSE,
             buf |-> write_string(extra.terminal_type) \o u32_be(extra.width_columns)
                     \o u32_be(extra.height_rows) \o u32_be(extra.width_pixels)
                     \o u32_be(extra.height_pixels) \o write_bytes(extra.terminal_modes)]
      [] extra.kind = "WindowChange" ->
            [panicked |-> FALSE,
             buf |-> u32_be(extra.width_columns) \o u32_be(extra.height_rows)
                     \o u32_be(extra.width_pixels) \o u32_be(extra.height_pixels)]
      [] extra.kind = "None" -> [panicked |-> TRUE, buf |-> <<>>]

\* write_message: the payload, or a panic.
write_message(m) ==
    LET Ok(buf) == [panicked |-> FALSE, buf |-> <<MessageId[m.type]>> \o buf]
    IN  CASE m.type = "Disconnect" ->
                Ok(u32_be(m.reason_code) \o write_string(m.description)
                   \o write_string(m.language_tag))
          [] m.type = "Ignore" -> Ok(write_bytes(m.data))
          [] m.type = "Unimplemented" -> Ok(u32_be(m.packet_sequence_number))
          [] m.type = "Debug" ->
                Ok(write_bool(m.always_display) \o write_string(m.message)
                   \o write_string(m.language_tag))
          [] m.type = "ServiceRequest" -> Ok(write_string(m.service_name))
          [] m.type = "ServiceAccept" -> Ok(write_string(m.service_name))
          [] m.type = "KexInit" ->
                Ok(m.cookie \o write_name_list(m.kex_algorithms)
                   \o write_name_list(m.server_host_key_algorithms)
                   \o write_name_list(m.encryption_algorithms_client_to_server)
                   \o write_name_list(m.encryption_algorithms_server_to_client)
                   \o write_name_list(m.mac_algorithms_client_to_server)
                   \o write_name_list(m.mac_algorithms_server_to_client)
                   \o write_name_list(m.compression_algorithms_client_to_server)
                   \o write_name_list(m.compression_algorithms_server_to_client)
                   \o write_name_list(m.languages_client_to_server)
                   \o write_name_list(m.languages_server_to_client)
                   \o write_bool(m.first_kex_packet_follows) \o u32_be(m.reserved))
          [] m.type = "NewKeys" -> Ok(<<>>)
          [] m.type = "KexEcdhInit" -> Ok(write_bytes(m.client_public_key))
          [] m.type = "KexEcdhReply" ->
                Ok(write_bytes(m.server_public_host_key) \o write_bytes(m.server_public_key)
                   \o write_bytes(m.signature))
          [] m.type = "UserauthRequest" ->
                Ok(write_string(m.username) \o write_string(m.service_name)
                   \o write_string(m.authentication_method))
          [] m.type = "UserauthFailure" ->
                Ok(write_name_list(m.authentication_methods) \o write_bool(m.partial_success))
          [] m.type = "UserauthSuccess" -> Ok(<<>>)
          [] m.type = "UserauthBanner" ->
                Ok(write_string(m.message) \o write_string(m.language_tag))
          [] m.type = "GlobalRequest" ->
                Ok(write_string(m.request_name) \o write_bool(m.want_reply))
          [] m.type = "RequestSuccess" -> Ok(<<>>)
          [] m.type = "RequestFailure" -> Ok(<<>>)
          [] m.type = "ChannelOpen" ->
                Ok(write_string(m.channel_type) \o u32_be(m.sender_channel)
                   \o u32_be(m.initial_window_size) \o u32_be(m.maximum_packet_size))
          [] m.type = "ChannelOpenConfirmation" ->
                Ok(u32_be(m.recipient_channel) \o u32_be(m.sender_channel)
                   \o u32_be(m.initial_window_size) \o u32_be(m.maximum_packet_size))
          [] m.type = "ChannelOpenFailure" ->
                Ok(u32_be(m.recipient_channel) \o u32_be(m.reason_code)
                   \o write_string(m.description) \o write_string(m.language_tag))
          [] m.type = "ChannelWindowAdjust" ->
                Ok(u32_be(m.recipient_channel) \o u32_be(m.bytes_to_add))
          [] m.type = "ChannelData" ->
                Ok(u32_be(m.recipient_channel) \o write_bytes(m.data))
          [] m.type = "ChannelExtendedData" ->
                Ok(u32_be(m.recipient_channel) \o u32_be(m.data_type_code)
                   \o write_bytes(m.data))
          [] m.type = "ChannelEof" -> Ok(u32_be(m.recipient_channel))
          [] m.type = "ChannelClose" -> Ok(u32_be(m.recipient_channel))
          [] m.type = "ChannelRequest" ->
                LET extra == write_channel_request_extra(m.extra)
                IN  IF extra.panicked THEN extra
                    ELSE Ok(u32_be(m.recipient_channel) \o write_string(m.request_type)
                            \o write_bool(m.want_reply) \o extra.buf)
          [] m.type = "ChannelSuccess" -> Ok(u32_be(m.recipient_channel))
          [] m.type = "ChannelFailure" -> Ok(u32_be(m.recipient_channel))

(***************************************************************************)
(* The record layer: framing (protocol.rs, write_payload / write_packet).  *)
(***************************************************************************)
NoBlockSize == 0

Max(a, b) == IF a >= b THEN a ELSE b

\* A padding that is not raised when it is below 4.
write_payload_padding_length_short(payload_len, cipher_block_key_size) ==
    Max(cipher_block_key_size, 8) - ((payload_len + 5) % Max(cipher_block_key_size, 8))

\* cipher_block_key_size.unwrap_or_default().max(8); padding brings
\* payload + 5 to a multiple of it and is at least 4.
write_payload_padding_length(payload_len, cipher_block_key_size) ==
    LET multiple_of == Max(cipher_block_key_size, 8)
        padding_length == multiple_of - ((payload_len + 5) % multiple_of)
    IN  IF padding_length < 4 THEN padding_length + multiple_of ELSE padding_length

write_payload(payload, cipher_block_key_size) ==
    LET padding_length == write_payload_padding_length(Len(payload), cipher_block_key_size)
        packet_length == Len(payload) + padding_length + 1
    IN  u32_be(packet_length) \o <<padding_length % 256>> \o payload \o Zeros(padding_length)

write_packet(packet, cipher_block_key_size) ==
    LET payload == write_message(packet)
    IN  IF payload.panicked THEN payload
        ELSE [panicked |-> FALSE, buf |-> write_payload(payload.buf, cipher_block_key_size)]

(***************************************************************************)
(* Cryptographic primitives.  SHA-256 is modelled by a 32-octet polynomial *)
(* checksum of its input (distinct on the inputs the model reaches),       *)
(* HMAC-SHA-256 by the checksum of key || message, Ed25519 by a 64-octet   *)
(* tag that binds the verifying key and the message, AES-128-CTR by a      *)
(* keystream of octets that depends on key, IV and position and is XORed   *)
(* onto the data, and Curve25519 by scalar multiplication in the cyclic    *)
(* group of integers modulo GroupOrder, a point being the 32-octet         *)
(* little-endian encoding of its value and the base point being 1.         *)
(***************************************************************************)
HashModulus == 65521

HashLen == 32

KeyLen == 32

GroupOrder == 251

RECURSIVE ChecksumRange(_, _, _)
ChecksumRange(buffer, lo, hi) ==
    IF lo > hi THEN 0
    ELSE IF lo = hi THEN ((buffer[lo] + 1) * ((lo * lo * 131 + lo * 17 + 3) % HashModulus)) % HashModulus
    ELSE LET mid == (lo + hi) \div 2
         IN  (ChecksumRange(buffer, lo, mid) + ChecksumRange(buffer, mid + 1, hi)) % HashModulus

Checksum(buffer) == (7 + 257 * Len(buffer) + ChecksumRange(buffer, 1, Len(buffer))) % HashModulus

sha256(buffer) ==
    LET c == Checksum(buffer)
    IN  [i \in 1..HashLen |->
            IF i = 1 THEN c \div 256
            ELSE IF i = 2 THEN c % 256
            ELSE (c + 37 * i) % 256]

hmac_sha256(key, message) == sha256(key \o message)

\* SigningKey::verifying_key
verifying_key(keypair) == sha256(<<112, 107>> \o keypair)

\* SigningKey::sign
ed25519_sign(keypair, to_sign) ==
    LET public == verifying_key(keypair)
    IN  sha256(public \o to_sign) \o sha256(to_sign \o public)

\* VerifyingKey::verify
ed25519_verify(public, message, signature) ==
    signature = sha256(public \o message) \o sha256(message \o public)

RECURSIVE point_value(_)
point_value(bytes) ==
    IF bytes = <<>> THEN 0 ELSE (bytes[1] + 256 * point_value(Tail(bytes))) % GroupOrder

point_bytes(v) == <<v % 256>> \o Zeros(KeyLen - 1)

\* ED25519_BASEPOINT_TABLE * scalar, to_montgomery().as_bytes()
basepoint_mul(scalar) == point_bytes(scalar % GroupOrder)

\* scalar * MontgomeryPoint
montgomery_mul(scalar, point) == point_bytes((scalar * point_value(point)) % GroupOrder)

RECURSIVE xor_octet(_, _)
xor_octet(a, b) ==
    IF a = 0 THEN b
    ELSE IF b = 0 THEN a
    ELSE ((a + b) % 2) + 2 * xor_octet(a \div 2, b \div 2)

\* The keystream octet at a position, for the block cipher state new_cipher
\* derives from the key and the initial counter block.
keystream(schedule, position) ==
    (schedule + 101 * position + 13 * (position \div 16)) % 256

\* Ctr128BE::<Aes128>::new
new_cipher(key, iv) ==
    [some |-> TRUE, key |-> key, iv |-> iv, schedule |-> Checksum(key \o iv), position |-> 0]

NoCipher == [some |-> FALSE]

\* StreamCipher::apply_keystream: the data XORed with the next octets of the
\* keystream, and the cipher advanced past them.
apply_keystream(cipher, data) ==
    [data |-> [i \in 1..Len(data) |->
                  xor_octet(data[i], keystream(cipher.schedule, cipher.position + i - 1))],
     cipher |-> [cipher EXCEPT !.position = @ + Len(data)]]

(***************************************************************************)
(* Key exchange and key derivation (crypto/mod.rs, crypto/ed25519.rs).     *)
(***************************************************************************)
\* The buffer compute_exchange_hash hashes, in the order it writes it.
exchange_hash_buffer(key, shared_secret, exchange) ==
    LET shared == write_mpint(shared_secret)
    IN  [panicked |-> shared.panicked,
         buf |-> write_bytes(exchange.client_id) \o write_bytes(exchange.server_id)
                 \o write_bytes(exchange.client_kex_init)
                 \o write_bytes(exchange.server_kex_init)
                 \o write_bytes(key)
                 \o write_bytes(exchange.client_ephemeral)
                 \o write_bytes(exchange.server_ephemeral)
                 \o shared.buf]

compute_exchange_hash(key, shared_secret, exchange) ==
    LET buffer == exchange_hash_buffer(key, shared_secret, exchange)
    IN  IF buffer.panicked THEN buffer ELSE [panicked |-> FALSE, buf |-> sha256(buffer.buf)]

add_signature(keypair, to_sign) ==
    write_string(S_ssh_ed25519) \o write_bytes(ed25519_sign(keypair, to_sign))

RECURSIVE extend_key(_, _, _, _)
extend_key(key, shared_mpint, exchange_hash, key_length) ==
    IF Len(key) >= key_length THEN key
    ELSE extend_key(key \o sha256(shared_mpint \o exchange_hash \o key),
                    shared_mpint, exchange_hash, key_length)

\* The shared secret was written as an mpint by compute_exchange_hash before
\* compute_key is reached, so write_mpint does not panic here.
compute_key(shared_secret, exchange_hash, character, session_id, key_length) ==
    LET shared_mpint == write_mpint(shared_secret).buf
        key == sha256(shared_mpint \o exchange_hash \o <<character>> \o session_id)
    IN  Take(extend_key(key, shared_mpint, exchange_hash, key_length), key_length)

compute_keys(shared_secret, exchange_hash, session_id, cipher_key_size, cipher_iv_size, mac_key_size) ==
    [initial_iv_client_to_server |->
         compute_key(shared_secret, exchange_hash, 65, session_id, cipher_iv_size),
     initial_iv_server_to_client |->
         compute_key(shared_secret, exchange_hash, 66, session_id, cipher_iv_size),
     encryption_key_client_to_server |->
         compute_key(shared_secret, exchange_hash, 67, session_id, cipher_key_size),
     encryption_key_server_to_client |->
         compute_key(shared_secret, exchange_hash, 68, session_id, cipher_key_size),
     integrity_key_client_to_server |->
         compute_key(shared_secret, exchange_hash, 69, session_id, mac_key_size),
     integrity_key_server_to_client |->
         compute_key(shared_secret, exchange_hash, 70, session_id, mac_key_size)]

(***************************************************************************)
(* The record layer: reading (connection.rs, ReadConnection).              *)
(***************************************************************************)
MacLen == 32

AesKeySize == 16

AesIvSize == 16

MacKeySize == 32

NoIntegrityKey == [some |-> FALSE]

\* A read side that is keyed from its construction.
ReadConnection_keyed ==
    [cipher |-> new_cipher(Zeros(AesKeySize), Zeros(AesIvSize)),
     integrity_key |-> [some |-> TRUE, key |-> Zeros(MacKeySize)]]

\* ReadConnection::new
ReadConnection_new == [cipher |-> NoCipher, integrity_key |-> NoIntegrityKey]

\* ReadConnection::set_cipher
set_cipher(read, encryption_key_client_to_server, initial_iv_client_to_server) ==
    [read EXCEPT !.cipher =
        new_cipher(encryption_key_client_to_server, initial_iv_client_to_server)]

MaybeDecrypt(cipher, data) ==
    IF cipher.some THEN apply_keystream(cipher, data) ELSE [data |-> data, cipher |-> cipher]

\* What read_payload does with the 32 octets that follow the packet when an
\* integrity key is installed: it reads them and drops them.
read_payload_mac_accepted(integrity_key, packet, mac) == TRUE

\* ReadConnection::read_payload on the octets `stream` the socket still
\* delivers before its end.  result is "ok" (payload returned), "err" (a read
\* hit the end of the stream or of the packet) or "underflow" (packet_length -
\* padding_length - 1 is negative: a panic, or a wrapped length that runs the
\* cursor dry, as the build decides).  consumed counts the octets taken from
\* the socket.
read_payload(read, stream) ==
    LET Fail(result, n) ==
            [result |-> result, payload |-> <<>>, read |-> read, consumed |-> n, mac |-> <<>>]
    IN  IF Len(stream) < 4 THEN Fail("err", Len(stream))
        ELSE
        LET head == MaybeDecrypt(read.cipher, Take(stream, 4))
            packet_length == u32_from_be(head.data)
        IN  IF head.data[1] >= 128 \/ Len(stream) < 4 + packet_length
            THEN Fail("err", Len(stream))
            ELSE
            LET body == MaybeDecrypt(head.cipher, SubSeq(stream, 5, 4 + packet_length))
                packet_bytes == body.data
                after == [read EXCEPT !.cipher = body.cipher]
            IN  IF packet_length = 0
                THEN [Fail("err", 4) EXCEPT !.read = after]
                ELSE
                LET padding_length == packet_bytes[1]
                    payload_length == packet_length - padding_length - 1
                IN  IF payload_length < 0
                    THEN [Fail("underflow", 4 + packet_length) EXCEPT !.read = after]
                    ELSE
                    LET payload == SubSeq(packet_bytes, 2, 1 + payload_length)
                    IN  IF ~read.integrity_key.some
                        THEN [result |-> "ok", payload |-> payload, read |-> after,
                              consumed |-> 4 + packet_length, mac |-> <<>>]
                        ELSE IF Len(stream) < 4 + packet_length + MacLen
                        THEN [Fail("err", Len(stream)) EXCEPT !.read = after]
                        ELSE
                        LET mac == SubSeq(stream, 5 + packet_length, 4 + packet_length + MacLen)
                        IN  IF read_payload_mac_accepted(read.integrity_key,
                                                         head.data \o packet_bytes, mac)
                            THEN [result |-> "ok", payload |-> payload, read |-> after,
                                  consumed |-> 4 + packet_length + MacLen, mac |-> mac]
                            ELSE [Fail("err", 4 + packet_length + MacLen) EXCEPT !.read = after]

(***************************************************************************)
(* The record layer: writing (ssh.rs, EncryptedConnection).                *)
(***************************************************************************)
NoConn == [some |-> FALSE]

\* EncryptedConnection::new
EncryptedConnection_new(encryption_keys, sequence_number_server_to_client) ==
    [some |-> TRUE,
     cipher_server_to_client |->
         new_cipher(encryption_keys.encryption_key_server_to_client,
                    encryption_keys.initial_iv_server_to_client),
     integrity_key_server_to_client |-> encryption_keys.integrity_key_server_to_client,
     sequence_number_server_to_client |-> sequence_number_server_to_client]

\* The sequence number EncryptedConnection::write_packet leaves behind.
next_sequence_number(n) == n + 1

\* EncryptedConnection::write_packet after write_message: the payload is
\* framed, the MAC computed over the octets of the sequence number and the
\* clear frame, the frame encrypted, both written.
EncryptedConnection_tagged(conn, payload, sequence_octets) ==
    LET bytes == write_payload(payload, AesKeySize)
        mac == hmac_sha256(conn.integrity_key_server_to_client, sequence_octets \o bytes)
        encrypted == apply_keystream(conn.cipher_server_to_client, bytes)
    IN  [conn |-> [conn EXCEPT !.cipher_server_to_client = encrypted.cipher],
         wire |-> encrypted.data \o mac,
         mac |-> mac]

\* The same, and the sequence number advanced.
EncryptedConnection_write_payload(conn, payload) ==
    LET w == EncryptedConnection_tagged(conn, payload,
                                        u32_be(conn.sequence_number_server_to_client))
    IN  [conn |-> [w.conn EXCEPT !.sequence_number_server_to_client =
                                     next_sequence_number(@)],
         wire |-> w.wire,
         mac |-> w.mac,
         seq |-> conn.sequence_number_server_to_client]

\* EncryptedConnection::write_packet
EncryptedConnection_write_packet(conn, packet) ==
    EncryptedConnection_write_payload(conn, write_message(packet).buf)

(***************************************************************************)
(* The terminal's elements and their layout (terminal/elements.rs).        *)
(*                                                                         *)
(* A text is the sequence of its words' lengths in characters, with SP,    *)
(* TAB and NL where it has a space, a tab and a line feed; successive      *)
(* lengths are parts of one word.  render moves the position and collects  *)
(* the links; of the string it returns only the length matters to the      *)
(* session, and TerminalSession stands for it with page_rendered below.    *)
(***************************************************************************)
SP == -1

TAB == -2

NL == -3

Min(a, b) == IF a <= b THEN a ELSE b

\* The value, computed before it is used.
Bind(value, Then(_)) == CHOOSE r \in {Then(x) : x \in {value}} : TRUE

\* Words separated by one space each.
RECURSIVE Spaced(_)
Spaced(lengths) ==
    IF Len(lengths) <= 1 THEN lengths
    ELSE <<lengths[1], SP>> \o Spaced(Tail(lengths))

\* Element::Text and the constructors of the prelude
text(items) == [kind |-> "Text", text |-> items]

horizontally_centered(inner) == [kind |-> "HorizontallyCentered", inner |-> inner]

vertically_centered(inner) == [kind |-> "VerticallyCentered", inner |-> inner]

rectangle(elements, rect) == [kind |-> "Rectangle", elements |-> elements, rect |-> rect]

container(elements) == [kind |-> "Container", elements |-> elements]

formatted(inner) == [kind |-> "Formatted", inner |-> inner]

colorless_link(inner, location) == [kind |-> "Link", inner |-> inner, location |-> location]

link(inner, location) == formatted(colorless_link(inner, location))

external_link(inner) == [kind |-> "ExternalLink", inner |-> inner]

\* flush_word: the word goes to the next line when it does not fit the
\* parent rectangle, and the position moves past it.
flush_word(pos, word_length, parent_rect) ==
    IF pos.x + word_length > parent_rect.left + parent_rect.width
    THEN [x |-> parent_rect.left + word_length, y |-> pos.y + 1]
    ELSE [x |-> pos.x + word_length, y |-> pos.y]

\* Element::render, Text: what follows the flush at a space, a tab, a line
\* feed.
after_separator(pos, c, parent_rect) ==
    IF c = SP THEN [pos EXCEPT !.x = @ + 1]
    ELSE IF c = TAB THEN [pos EXCEPT !.x = @ + 4]
    ELSE [x |-> parent_rect.left, y |-> pos.y + 1]

\* Of the string a render returns the model keeps whether it is empty and
\* how many cursor-home sequences ("\x1b[H") it ends with.
NoOutput == [empty |-> TRUE, homes_at_end |-> 0]

\* push_str of octets that are no cursor-home sequence
pushed(out) == [empty |-> FALSE, homes_at_end |-> 0]

\* push_str("\x1b[H")
pushed_home(out) == [empty |-> FALSE, homes_at_end |-> out.homes_at_end + 1]

\* flush_word: in_window
in_window(pos, window) == pos.y >= 0 /\ pos.y < window.height

\* flush_word, the result: move_cursor(pos) and the word are pushed when
\* the word, flushed to flushed, is inside the window; Element::render
\* pushes the spaces of a space or a tab after it on the same condition.
flush_word_out(out, flushed, window) ==
    IF in_window(flushed, window) THEN pushed(out) ELSE out

\* Element::render, Text: the characters from the i-th item on, word being
\* the length of the word collected so far, cur the position and the
\* result so far.
RECURSIVE render_chars(_, _, _, _, _, _)
render_chars(items, i, word, cur, parent_rect, window) ==
    IF i > Len(items)
    THEN Bind(flush_word(cur.pos, word, parent_rect),
              LAMBDA flushed : [pos |-> flushed,
                                out |-> flush_word_out(cur.out, flushed, window)])
    ELSE IF items[i] >= 0
    THEN render_chars(items, i + 1, word + items[i], cur, parent_rect, window)
    ELSE Bind(flush_word(cur.pos, word, parent_rect),
              LAMBDA flushed :
                 render_chars(items, i + 1, 0,
                              [pos |-> after_separator(flushed, items[i], parent_rect),
                               out |-> flush_word_out(cur.out, flushed, window)],
                              parent_rect, window))

\* The rectangle HorizontallyCentered gives its inner element: as wide as
\* the first render was if that stayed on its line, else as the parent.
centered_width(initial_pos, pos, parent_rect) ==
    IF initial_pos.y = pos.y THEN pos.x - initial_pos.x ELSE parent_rect.width

horizontally_centered_rect(width, parent_rect) ==
    [left |-> parent_rect.left + (parent_rect.width - width) \div 2,
     top |-> parent_rect.top, width |-> width, height |-> parent_rect.height]

\* The rectangle VerticallyCentered gives its inner element.
centered_height(initial_pos, pos, parent_rect) ==
    Min(pos.y - initial_pos.y, parent_rect.height)

vertically_centered_rect(height, parent_rect) ==
    [left |-> parent_rect.left,
     top |-> parent_rect.top + (parent_rect.height - height) \div 2,
     width |-> parent_rect.width, height |-> height]

\* Element::render, Link: the positions of the link are those between where
\* its inner element started and where it ended.
link_pushed(location, start_pos, rendered) ==
    [rendered EXCEPT !.links = Append(@, [location |-> location,
                                          x0 |-> start_pos.x, x1 |-> rendered.pos.x,
                                          y0 |-> start_pos.y, y1 |-> rendered.pos.y])]

\* Element::render.  at is the position, the links pushed so far, the
\* result so far, the focused link and the window, and ok: FALSE once a
\* subtraction of unsigned values went below zero (a panic, or a wrapped
\* value).
RECURSIVE render(_, _, _)
RECURSIVE render_each(_, _, _, _)
render_again(inner, at, pos, rect) ==
    render(inner, [at EXCEPT !.pos = pos], rect)

render_horizontally_centered(inner, at, first, parent_rect) ==
    Bind(centered_width(at.pos, first.pos, parent_rect),
         LAMBDA width :
            IF width < 0 \/ width > parent_rect.width
            THEN [at EXCEPT !.ok = FALSE]
            ELSE Bind(horizontally_centered_rect(width, parent_rect),
                      LAMBDA rect :
                         render_again(inner, at, [x |-> rect.left, y |-> first.pos.y], rect)))

render_vertically_centered(inner, at, first, parent_rect) ==
    Bind(vertically_centered_rect(centered_height(at.pos, first.pos, parent_rect),
                                  parent_rect),
         LAMBDA rect :
            render_again(inner, at, [x |-> first.pos.x, y |-> rect.top], rect))

render(element, at, parent_rect) ==
    IF ~at.ok THEN at
    ELSE CASE element.kind = "Text" ->
                 Bind(render_chars(element.text, 1, 0, [pos |-> at.pos, out |-> at.out],
                                   parent_rect, at.window),
                      LAMBDA rendered : [at EXCEPT !.pos = rendered.pos,
                                                   !.out = rendered.out])
           [] element.kind = "HorizontallyCentered" ->
                 Bind(render(element.inner, at, parent_rect),
                      LAMBDA first :
                         render_horizontally_centered(element.inner, at, first, parent_rect))
           [] element.kind = "VerticallyCentered" ->
                 Bind(render(element.inner, at, parent_rect),
                      LAMBDA first :
                         render_vertically_centered(element.inner, at, first, parent_rect))
           [] element.kind = "Rectangle" ->
                 render_each(element.elements, 1, at, element.rect)
           [] element.kind = "Container" ->
                 render_each(element.elements, 1, at, parent_rect)
           [] element.kind = "Link" ->
                 IF at.link_index = Len(at.links)
                 THEN Bind(render(element.inner, [at EXCEPT !.out = pushed(@)], parent_rect),
                           LAMBDA rendered :
                              link_pushed(element.location, at.pos,
                                          [rendered EXCEPT !.out = pushed(@)]))
                 ELSE Bind(render(element.inner, at, parent_rect),
                           LAMBDA rendered : link_pushed(element.location, at.pos, rendered))
           [] element.kind \in {"ExternalLink", "Formatted"} ->
                 Bind(render(element.inner, [at EXCEPT !.out = pushed(@)], parent_rect),
                      LAMBDA rendered : [rendered EXCEPT !.out = pushed(@)])

render_each(elements, i, at, parent_rect) ==
    IF i > Len(elements) THEN at
    ELSE Bind(render(elements[i], at, parent_rect),
              LAMBDA rendered : render_each(elements, i + 1, rendered, parent_rect))

\* positions.contains(&mouse_position)
link_contains(l, mouse_position) ==
    /\ l.x0 <= mouse_position.x /\ mouse_position.x <= l.x1
    /\ l.y0 <= mouse_position.y /\ mouse_position.y <= l.y1

(***************************************************************************)
(* The site's data (crawl.rs) and the pages drawn from it                  *)
(* (terminal/mod.rs).                                                      *)
(***************************************************************************)
Index == [kind |-> "Index"]

Blog == [kind |-> "Blog"]

Projects == [kind |-> "Projects"]

BlogPost(slug) == [kind |-> "BlogPost", slug |-> slug]

\* published.format("%m/%d/%Y"): one word of ten characters
published == <<10>>

\* A post whose parts are of every kind a post can have.
LongPost ==
    [title |-> Spaced(<<5, 2, 4>>), slug |-> "long",
     content |-> <<
        [kind |-> "Text", t |-> Spaced(<<4, 7, 2, 9, 3, 11, 5, 8>>)],
        [kind |-> "LineBreak"],
        [kind |-> "Heading", t |-> Spaced(<<5, 3>>)],
        [kind |-> "Text", t |-> Spaced(<<3, 6>>) \o <<SP>>],
        [kind |-> "InlineCode", t |-> <<9>>],
        [kind |-> "Text", t |-> <<SP>> \o Spaced(<<2, 4>>) \o <<SP>>],
        [kind |-> "Link", t |-> Spaced(<<4, 4>>)],
        [kind |-> "Italic", t |-> <<SP, 6>>],
        [kind |-> "Bold", t |-> <<SP, 4>>],
        [kind |-> "CodeBlock", t |-> <<TAB>> \o Spaced(<<2, 34>>) \o <<NL, 6>>],
        [kind |-> "Image", alt |-> [some |-> TRUE, text |-> Spaced(<<1, 3>>)], src |-> <<14>>],
        [kind |-> "Image", alt |-> [some |-> FALSE], src |-> <<95>>],
        [kind |-> "Heading", t |-> <<7>>],
        [kind |-> "Quote", t |-> Spaced(<<3, 5, 2, 8>>)]
     >>]

ShortPost ==
    [title |-> <<8>>, slug |-> "short",
     content |-> <<[kind |-> "Text", t |-> Spaced(<<5, 5>>)]>>]

\* Language names as their lengths: Rust, TypeScript
FullProject ==
    [name |-> Spaced(<<7, 3>>), href |-> TRUE, source |-> TRUE, languages |-> <<4, 10>>,
     description |-> Spaced(<<1, 4, 7, 3, 9, 5, 2, 6, 8, 3>>)]

BareProject ==
    [name |-> <<6>>, href |-> FALSE, source |-> FALSE, languages |-> <<>>,
     description |-> Spaced(<<4, 2, 3>>)]

\* The site data a session may be given: nothing crawled, or posts and
\* projects.
EmptySite == [projects |-> <<>>, blog |-> <<>>]

FullSite == [projects |-> <<FullProject, BareProject>>, blog |-> <<LongPost, ShortPost>>]

SiteDatas == {EmptySite, FullSite}

\* index_page's elements
index_elements ==
    <<vertically_centered(container(<<
         text(<<NL>>),
         formatted(horizontally_centered(formatted(text(<<10>>)))),
         text(<<NL, NL>>),
         horizontally_centered(formatted(container(<<
            text(<<7, SP>>), external_link(text(<<5>>))>>))),
         text(<<NL>>),
         horizontally_centered(formatted(container(<<
            text(<<7, SP>>), external_link(text(<<16>>))>>))),
         text(<<NL>>),
         horizontally_centered(formatted(container(<<
            text(<<5, SP, 10, SP>>), external_link(text(<<10>>))>>))),
         text(<<NL, NL>>),
         text(Spaced(<<3, 4, 1, 2, 10, 8, 12>>) \o <<NL>>),
         text(Spaced(<<4, 9, 8, 2, 4, 5, 3, 5, 2, 4, 2, 3, 8, 4, 5>>) \o <<NL>>),
         text(<<NL>>),
         horizontally_centered(container(<<
            link(text(<<6>>), Blog), text(<<SP>>), link(text(<<10>>), Projects)>>)),
         text(<<NL>>)>>)),
      text(<<NL, NL, NL, NL>>),
      formatted(formatted(horizontally_centered(
         text(Spaced(<<4, 3, 2, 8, 6, 5, 2, 7>>)))))>>

\* blog_page's elements
RECURSIVE blog_post_elements(_, _)
blog_post_elements(blog, i) ==
    IF i > Len(blog) THEN <<>>
    ELSE <<colorless_link(container(<<text(blog[i].title), text(<<NL>>),
                                      formatted(text(published))>>),
                          BlogPost(blog[i].slug)),
           text(<<NL, NL>>)>>
         \o blog_post_elements(blog, i + 1)

blog_elements(site_data) ==
    <<text(<<NL>>), link(formatted(text(<<1, SP, 4>>)), Index), text(<<NL, NL>>),
      formatted(formatted(text(<<4>>))), text(<<NL, NL, NL>>)>>
    \o blog_post_elements(site_data.blog, 1)

\* blog_post_page: the elements of one part of the post
image_desc(part) ==
    <<6, SP>>
    \o (IF part.alt.some THEN part.alt.text \o <<SP, 1>> ELSE <<>>)
    \o part.src
    \o (IF part.alt.some THEN <<1>> ELSE <<>>)

part_elements(part, last_tag_was_line_break) ==
    CASE part.kind = "Text" -> <<text(part.t)>>
      [] part.kind = "InlineCode" -> <<formatted(text(<<1>> \o part.t \o <<1>>))>>
      [] part.kind = "CodeBlock" -> <<formatted(text(<<3, NL>> \o part.t \o <<NL, 3, NL>>))>>
      [] part.kind \in {"Italic", "Bold"} -> <<formatted(text(part.t))>>
      [] part.kind = "Image" ->
            <<formatted(formatted(text(<<NL>> \o image_desc(part) \o <<NL>>)))>>
      [] part.kind = "Link" -> <<external_link(text(part.t))>>
      [] part.kind = "LineBreak" -> <<text(<<NL, NL>>)>>
      [] part.kind = "Heading" ->
            (IF last_tag_was_line_break THEN <<>> ELSE <<text(<<NL>>)>>)
            \o <<formatted(formatted(text(part.t \o <<NL>>)))>>
      [] part.kind = "Quote" -> <<formatted(text(<<1, SP>> \o part.t \o <<NL>>))>>

RECURSIVE content_elements(_, _, _)
content_elements(content, i, last_tag_was_line_break) ==
    IF i > Len(content) THEN <<>>
    ELSE part_elements(content[i], last_tag_was_line_break)
         \o content_elements(content, i + 1, content[i].kind = "LineBreak")

\* blog_post_page's elements for a post of the site
post_elements(blog_post) ==
    <<text(<<NL>>), link(formatted(text(<<1, SP, 4>>)), Blog), text(<<NL, NL>>),
      formatted(formatted(text(blog_post.title))), text(<<NL>>),
      formatted(text(published)), text(<<NL, NL>>)>>
    \o content_elements(blog_post.content, 1, FALSE)

\* projects_page's elements
RECURSIVE languages_joined(_)
languages_joined(languages) ==
    IF Len(languages) <= 1 THEN languages
    ELSE <<languages[1] + 1, SP>> \o languages_joined(Tail(languages))

project_elements(project) ==
    <<IF project.href THEN external_link(formatted(text(project.name)))
      ELSE formatted(text(project.name))>>
    \o (IF project.source
        THEN <<text(<<SP>>), formatted(external_link(text(<<8>>)))>> ELSE <<>>)
    \o <<text(<<NL>>)>>
    \o (IF project.languages # <<>>
        THEN <<formatted(text(<<10, SP>> \o languages_joined(project.languages))),
               text(<<NL>>)>>
        ELSE <<>>)
    \o <<text(project.description), text(<<NL, NL>>)>>

RECURSIVE each_project_elements(_, _)
each_project_elements(projects, i) ==
    IF i > Len(projects) THEN <<>>
    ELSE project_elements(projects[i]) \o each_project_elements(projects, i + 1)

projects_elements(site_data) ==
    <<text(<<NL>>), link(formatted(text(<<1, SP, 4>>)), Index), text(<<NL, NL>>),
      formatted(formatted(text(<<8>>))), text(<<NL, NL>>)>>
    \o each_project_elements(site_data.projects, 1)

\* ctx.site_data.blog.iter().find(|p| p.slug == slug)
find_post(blog, slug) ==
    IF \E i \in 1..Len(blog) : blog[i].slug = slug
    THEN [some |-> TRUE,
          post |-> blog[CHOOSE i \in 1..Len(blog) :
                           /\ blog[i].slug = slug
                           /\ \A j \in 1..(i - 1) : blog[j].slug # slug]]
    ELSE [some |-> FALSE]

\* The page of a location: the widest it is drawn and its elements.  The
\* page of a post the site does not have is the index page.
page_of(location, site_data) ==
    CASE location.kind = "Index" -> [max_width |-> 50, elements |-> index_elements]
      [] location.kind = "Blog" -> [max_width |-> 80, elements |-> blog_elements(site_data)]
      [] location.kind = "Projects" ->
            [max_width |-> 80, elements |-> projects_elements(site_data)]
      [] location.kind = "BlogPost" ->
            LET found == find_post(site_data.blog, location.slug)
            IN  IF found.some
                THEN [max_width |-> 80, elements |-> post_elements(found.post)]
                ELSE [max_width |-> 50, elements |-> index_elements]

(***************************************************************************)
(* The terminal session (terminal/mod.rs).  The session is its location    *)
(* and the fields of its context.  What a page renders to is the           *)
(* clear-screen and home sequences, the octets of what decides the drawn   *)
(* tree (viewport, focus, scroll, height and links of the page), and the   *)
(* closing home sequence.                                                  *)
(***************************************************************************)
NoLink == -1

MaxRenders == 4

\* TerminalSession::new
TerminalSession_new(site_data) ==
    [location |-> Index, width |-> 0, height |-> 0, site_data |-> site_data,
     link_index |-> NoLink, scroll |-> 0]

\* Page::new, the tree: the rectangle of the page, drawn from the top left
\* of the scrolled window.
page_tree(ctx, max_width, elements) ==
    LET width == Min(max_width, ctx.width)
    IN  rectangle(elements, [left |-> (ctx.width - width) \div 2, top |-> -ctx.scroll,
                             width |-> width, height |-> ctx.height])

page_drawn(ctx, max_width, elements) ==
    render(page_tree(ctx, max_width, elements),
           [pos |-> [x |-> 0, y |-> -ctx.scroll], links |-> <<>>, ok |-> TRUE,
            out |-> pushed_home(pushed(NoOutput)), link_index |-> ctx.link_index,
            window |-> [left |-> 0, top |-> 0, width |-> ctx.width, height |-> ctx.height]],
           [left |-> 0, top |-> 0, width |-> ctx.width, height |-> ctx.height])

\* A page that forgets its last cursor-home sequence.
Page_out_open(drawn) == drawn.out

\* Page::new, out: "\x1b[2J\x1b[H" and the drawn tree, closed with "\x1b[H"
Page_out(drawn) == pushed_home(drawn.out)

\* out: "\x1b[2J\x1b[H", the drawn tree, "\x1b[H"
rendered_octets(ctx, page_height, links) ==
    <<27, 91, 50, 74, 27, 91, 72>>
    \o <<ctx.width % 256, ctx.height % 256, ctx.link_index + 1, ctx.scroll % 256,
         page_height % 256, Len(links)>>
    \o <<27, 91, 72>>

\* A page that leaves the scroll as it finds it.
clamped_scroll_kept(ctx, page_height) == ctx.scroll

\* Page::new, the scroll the clamp leaves
clamped_scroll(ctx, page_height) ==
    IF ctx.scroll + ctx.height > page_height
    THEN Max(0, page_height - ctx.height)
    ELSE ctx.scroll

\* Page::new: the page, the context it leaves, and how many times the tree
\* was rendered for it.  ok is FALSE when the layout went below zero or
\* the page kept being redrawn.
RECURSIVE Page_new(_, _, _, _)
Page_failed(ctx, renders) ==
    [ts |-> ctx, rendered |-> <<>>, links |-> <<>>, page_height |-> 0, ok |-> FALSE,
     renders |-> renders, out |-> NoOutput]

Page_clamped(ctx, max_width, elements, renders, drawn, page_height) ==
    IF ~drawn.ok \/ page_height < 0 THEN Page_failed(ctx, renders)
    ELSE IF clamped_scroll(ctx, page_height) < ctx.scroll
    THEN IF renders >= MaxRenders THEN Page_failed(ctx, renders)
         ELSE Page_new([ctx EXCEPT !.scroll = clamped_scroll(ctx, page_height)],
                       max_width, elements, renders + 1)
    ELSE [ts |-> ctx, rendered |-> rendered_octets(ctx, page_height, drawn.links),
          links |-> drawn.links, page_height |-> page_height, ok |-> TRUE,
          renders |-> renders, out |-> Page_out(drawn)]

Page_new(ctx, max_width, elements, renders) ==
    Bind(page_drawn(ctx, max_width, elements),
         LAMBDA drawn :
            Page_clamped(ctx, max_width, elements, renders, drawn,
                         drawn.pos.y + ctx.scroll))

\* TerminalSession::page
page(ts) ==
    Bind(page_of(ts.location, ts.site_data),
         LAMBDA of : Page_new(ts, of.max_width, of.elements, 1))

\* self.page().rendered
page_rendered(ts) == page(ts).rendered

\* What a handler returns: the session it leaves, the octets, whether it
\* panicked, and the most renders one of its pages took.
Returned(ts, data, ok, renders) ==
    [ts |-> ts, data |-> data, panicked |-> ~ok, renders |-> renders]

\* return self.page().rendered, after a page that took so many renders
return_page(ts, renders) ==
    Bind(page(ts),
         LAMBDA drawn : Returned(drawn.ts, drawn.rendered, drawn.ok,
                                 Max(renders, drawn.renders)))

\* TerminalSession::resize
resize(ts, width, height) ==
    return_page([ts EXCEPT !.width = width, !.height = height], 0)

\* A session that keeps its focus when it follows a link.
followed_focused(ts, location) ==
    [ts EXCEPT !.location = location, !.scroll = 0]

\* A session that keeps its scroll when it follows a link.
followed_scrolled(ts, location) ==
    [ts EXCEPT !.location = location, !.link_index = NoLink]

\* The link follows: location, scroll and focus as on_keystroke sets them
followed(ts, location) ==
    [ts EXCEPT !.location = location, !.scroll = 0, !.link_index = NoLink]

\* s.parse::<usize>() of the field: decimal digits, after a plus sign or
\* not
RECURSIVE digits_value(_, _)
digits_value(digits, value) ==
    IF digits = <<>> THEN value
    ELSE digits_value(Tail(digits), 10 * value + (digits[1] - 48))

parse_usize(field) ==
    LET digits == IF field # <<>> /\ field[1] = 43 THEN Tail(field) ELSE field
    IN  IF digits # <<>> /\ \A i \in 1..Len(digits) : digits[i] \in 48..57
        THEN [some |-> TRUE, value |-> digits_value(digits, 0)]
        ELSE [some |-> FALSE]

\* keys.split(|&k| k == 59)
RECURSIVE split(_, _)
split(keys, field) ==
    IF keys = <<>> THEN <<field>>
    ELSE IF keys[1] = 59 THEN <<field>> \o split(Tail(keys), <<>>)
    ELSE split(Tail(keys), Append(field, keys[1]))

\* The first link of the page the mouse is on
clicked_link(links, mouse_position) ==
    IF \E i \in 1..Len(links) : link_contains(links[i], mouse_position)
    THEN [some |-> TRUE,
          location |-> links[CHOOSE i \in 1..Len(links) :
                                /\ link_contains(links[i], mouse_position)
                                /\ \A j \in 1..(i - 1) :
                                      ~link_contains(links[j], mouse_position)].location]
    ELSE [some |-> FALSE]

\* on_keystroke, the mouse: what follows "\x1b[<"
on_mouse(ts, keys, renders) ==
    IF keys = <<>> THEN Returned(ts, <<>>, TRUE, renders)
    ELSE LET last == keys[Len(keys)]
             fields == split(SubSeq(keys, 1, Len(keys) - 1), <<>>)
             px == IF Len(fields) >= 2 /\ is_utf8(fields[2])
                   THEN parse_usize(fields[2]) ELSE [some |-> FALSE]
             py == IF Len(fields) >= 3 /\ is_utf8(fields[3])
                   THEN parse_usize(fields[3]) ELSE [some |-> FALSE]
         IN  IF ~is_utf8(fields[1]) \/ ~px.some \/ ~py.some
             THEN Returned(ts, <<>>, TRUE, renders)
             ELSE IF fields[1] = <<48>> /\ last = 77
             THEN Bind(page(ts),
                       LAMBDA drawn :
                          LET clicked == clicked_link(drawn.links,
                                            [x |-> px.value - 1, y |-> py.value - 1])
                          IN  IF ~drawn.ok
                              THEN Returned(drawn.ts, <<>>, FALSE, Max(renders, drawn.renders))
                              ELSE IF clicked.some
                              THEN return_page(followed(drawn.ts, clicked.location),
                                               Max(renders, drawn.renders))
                              ELSE Returned(drawn.ts, <<>>, TRUE,
                                            Max(renders, drawn.renders)))
             ELSE IF fields[1] = <<54, 53>>
             THEN return_page([ts EXCEPT !.scroll = @ + 2], renders)
             ELSE IF fields[1] = <<54, 52>>
             THEN return_page([ts EXCEPT !.scroll = IF @ >= 2 THEN @ - 2 ELSE 0], renders)
             ELSE Returned(ts, <<>>, TRUE, renders)

\* on_keystroke after its first page
on_keys(ts, links, keys, renders) ==
    IF keys = <<9>>
    THEN IF ts.link_index # NoLink
         THEN IF Len(links) = 0 THEN Returned(ts, <<>>, FALSE, renders)
              ELSE return_page([ts EXCEPT !.link_index = (@ + 1) % Len(links)], renders)
         ELSE return_page([ts EXCEPT !.link_index = 0], renders)
    ELSE IF keys = <<27, 91, 90>>
    THEN IF ts.link_index # NoLink
         THEN IF Len(links) = 0 THEN Returned(ts, <<>>, FALSE, renders)
              ELSE return_page([ts EXCEPT !.link_index = (@ + Len(links) - 1) % Len(links)],
                               renders)
         ELSE return_page([ts EXCEPT !.link_index = 0], renders)
    ELSE IF keys = <<13>>
    THEN IF ts.link_index # NoLink /\ ts.link_index + 1 <= Len(links)
         THEN return_page(followed(ts, links[ts.link_index + 1].location), renders)
         ELSE Returned(ts, <<>>, TRUE, renders)
    ELSE IF keys = <<27, 91, 66>>
    THEN return_page([ts EXCEPT !.scroll = @ + 2], renders)
    ELSE IF keys = <<27, 91, 65>>
    THEN return_page([ts EXCEPT !.scroll = IF @ >= 2 THEN @ - 2 ELSE 0], renders)
    ELSE IF keys = <<27, 91, 53, 126>>
    THEN return_page([ts EXCEPT !.scroll = IF @ >= ts.height THEN @ - ts.height ELSE 0],
                     renders)
    ELSE IF keys = <<27, 91, 54, 126>>
    THEN return_page([ts EXCEPT !.scroll = @ + ts.height], renders)
    ELSE IF Len(keys) >= 3 /\ SubSeq(keys, 1, 3) = <<27, 91, 60>>
    THEN on_mouse(ts, SubSeq(keys, 4, Len(keys)), renders)
    ELSE Returned(ts, <<>>, TRUE, renders)

\* TerminalSession::on_keystroke
on_keystroke(ts, keys) ==
    Bind(page(ts),
         LAMBDA drawn :
            IF ~drawn.ok THEN Returned(drawn.ts, <<>>, FALSE, drawn.renders)
            ELSE on_keys(drawn.ts, drawn.links, keys, drawn.renders))

\* TerminalSession::on_open: "\x1b[?25l" "\x1b[?7l" "\x1b[?1003h" "\x1b[?1006h"
on_open ==
    <<27, 91, 63, 50, 53, 108>> \o <<27, 91, 63, 55, 108>>
    \o <<27, 91, 63, 49, 48, 48, 51, 104>> \o <<27, 91, 63, 49, 48, 48, 54, 104>>

\* TerminalSession::on_close: "\x1b[?25h" "\x1b[?7h" "\x1b[?1003l" "\x1b[?1006l"
\* "Bye!\r\n"
on_close ==
    <<27, 91, 63, 50, 53, 104>> \o <<27, 91, 63, 55, 104>>
    \o <<27, 91, 63, 49, 48, 48, 51, 108>> \o <<27, 91, 63, 49, 48, 48, 54, 108>>
    \o S_bye

(***************************************************************************)
(* The clients of the model: what they may send on an SSH connection.      *)
(***************************************************************************)
CRLF == <<13, 10>>

Cookie1 == [i \in 1..16 |-> i]

Cookie2 == [i \in 1..16 |-> 17 - i]

KexInitWith(cookie, kex, host_key, encryption, mac, compression) ==
    [type |-> "KexInit", cookie |-> cookie,
     kex_algorithms |-> kex,
     server_host_key_algorithms |-> host_key,
     encryption_algorithms_client_to_server |-> encryption,
     encryption_algorithms_server_to_client |-> encryption,
     mac_algorithms_client_to_server |-> mac,
     mac_algorithms_server_to_client |-> mac,
     compression_algorithms_client_to_server |-> compression,
     compression_algorithms_server_to_client |-> compression,
     languages_client_to_server |-> <<>>,
     languages_server_to_client |-> <<>>,
     first_kex_packet_follows |-> FALSE,
     reserved |-> 0]

\* The KexInit the server sends (ssh.rs, connection).
ServerKexInit(cookie) ==
    KexInitWith(cookie, <<S_curve25519_sha256>>, <<S_ssh_ed25519>>, <<S_aes128_ctr>>,
                <<S_hmac_sha2_256>>, <<S_none>>)

\* A client KexInit that offers the server's algorithms among others, and
\* one that offers none of them.
ClientKexInitMatching ==
    KexInitWith(Cookie2, <<S_a, S_curve25519_sha256>>, <<S_ssh_ed25519>>, <<S_aes128_ctr>>,
                <<S_hmac_sha2_256>>, <<S_none, S_zlib>>)

ClientKexInitMismatch ==
    KexInitWith(Cookie2, <<S_a>>, <<S_b>>, <<S_a>>, <<S_b>>, <<S_zlib>>)

ClientSecrets == {3, 200}

ServerSecrets == {5}

ChannelRequestOf(request_type, extra) ==
    [type |-> "ChannelRequest", recipient_channel |-> 0, request_type |-> request_type,
     want_reply |-> TRUE, extra |-> extra]

ClientMessages ==
    {ClientKexInitMatching, ClientKexInitMismatch, [type |-> "NewKeys"]}
    \cup {[type |-> "KexEcdhInit", client_public_key |-> basepoint_mul(s)] : s \in ClientSecrets}
    \cup {[type |-> "KexEcdhInit", client_public_key |-> k] : k \in {Zeros(KeyLen), <<1, 2, 3>>}}
    \cup {[type |-> "ServiceRequest", service_name |-> n] : n \in {S_ssh_userauth, S_ssh_connection}}
    \cup {[type |-> "UserauthRequest", username |-> S_a, service_name |-> S_ssh_connection,
           authentication_method |-> S_password],
          [type |-> "ChannelOpen", channel_type |-> S_session, sender_channel |-> 7,
           initial_window_size |-> 8, maximum_packet_size |-> 8],
          ChannelRequestOf(S_pty_req, ExtraTerminal(S_xterm, 80, 24, 0, 0, <<0>>)),
          ChannelRequestOf(S_window_change, ExtraWindowChange(40, 12, 0, 0)),
          ChannelRequestOf(S_shell, ExtraNone),
          ChannelRequestOf(S_exec, ExtraNone),
          [type |-> "UserauthRequest", username |-> S_b, service_name |-> S_ssh_userauth,
           authentication_method |-> S_none],
          [type |-> "ChannelWindowAdjust", recipient_channel |-> 0, bytes_to_add |-> 50],
          [type |-> "Disconnect", reason_code |-> 11, description |-> S_b,
           language_tag |-> <<>>],
          [type |-> "Ignore", data |-> <<1>>],
          [type |-> "ChannelEof", recipient_channel |-> 0]}
    \cup {[type |-> "ChannelData", recipient_channel |-> 0, data |-> d] :
             d \in {<<3>>, <<4>>, <<9>>, <<120>>}}

\* A client's encoder: write_message, and for a ChannelRequest without
\* trailing fields (which write_message cannot encode) the same layout.
client_encode(m) ==
    IF m.type = "ChannelRequest" /\ m.extra.kind = "None"
    THEN <<98>> \o u32_be(m.recipient_channel) \o write_string(m.request_type)
         \o write_bool(m.want_reply)
    ELSE write_message(m).buf

\* Payloads that are no message: an unknown ID, an empty payload, a
\* truncated ServiceRequest.
UnknownIdPayloads == {<<7>>, <<255, 0, 0, 0, 0>>}

MalformedPayloads == {<<>>, <<5, 0, 0>>}

\* The messages only a client that is still exchanging keys varies: once the
\* keys are in use a client sends its other messages.
KeyExchangeVariants ==
    {ClientKexInitMismatch}
    \cup {[type |-> "KexEcdhInit", client_public_key |-> k] :
             k \in {basepoint_mul(200), Zeros(KeyLen), <<1, 2, 3>>}}

KeyExchangePayloads == {client_encode(m) : m \in KeyExchangeVariants}

ClientPayloads ==
    {client_encode(m) : m \in ClientMessages} \cup UnknownIdPayloads \cup MalformedPayloads

\* What the first read of the socket may return: the banner line, a line
\* that is no UTF-8, a single octet.
ClientFirstReads == {S_client_banner \o CRLF, <<255, 254>> \o CRLF, <<83>>}

(***************************************************************************)
(* The SSH session state machine (ssh.rs, fn connection).                  *)
(*                                                                         *)
(* pc is the await the connection task is parked at, result how the task   *)
(* ended.  sent is what the server wrote to the socket, in order, and      *)
(* received the packets it read, up to the main loop; packets_read counts   *)
(* the packets read, packet is the last packet the main loop read and      *)
(* replies what the loop wrote for it; channel_window is what the client   *)
(* has granted to the channel it opened, with the packet size it gave,     *)
(* and the channel data octets the server has written since.  These are    *)
(* kept to state the properties.                                           *)
(* The other variables are the locals of fn connection.                    *)
(***************************************************************************)
VARIABLES pc, result, sent, received, packets_read, packet, replies, channel_window,
          client_banner,
          client_id, server_kex_init_payload, client_kex_init_payload,
          shared_secret, exchange_hash, session_id, encryption_keys,
          sequence_number_server_to_client, read, conn, terminal_session,
          codec, record, loader, term, layout, drawn, udp, qotd, process, gemtext, media, sequence, framed, mpint, banner, wire

sshVars == <<pc, result, sent, received, packets_read, packet, replies, channel_window,
             client_banner,
             client_id, server_kex_init_payload, client_kex_init_payload,
             shared_secret, exchange_hash, session_id, encryption_keys,
             sequence_number_server_to_client, read, conn, terminal_session>>

vars == <<sshVars, codec, record, loader, term, layout, drawn, udp, qotd, process, gemtext, media, sequence, framed, mpint, banner, wire>>

\* The number of packets a client sends on one connection.
MaxPackets == 5

\* crypto::ed25519::load_keypair: the 32-octet seed in data/ssh/keypair.bin
keypair == Zeros(KeyLen - 1) \o <<9>>

NoKeys ==
    [initial_iv_client_to_server |-> <<>>, initial_iv_server_to_client |-> <<>>,
     encryption_key_client_to_server |-> <<>>, encryption_key_server_to_client |-> <<>>,
     integrity_key_client_to_server |-> <<>>, integrity_key_server_to_client |-> <<>>]

Idle == [pc |-> "idle"]

\* The main loop has read no packet yet.
NoPacket == [some |-> FALSE]

\* The client has opened no channel yet.
NoChannel == [opened |-> FALSE, granted |-> 0, sent |-> 0, maximum_packet_size |-> 0]

SshLocalsInit ==
    /\ result = "running"
    /\ sent = <<>>
    /\ received = <<>>
    /\ packets_read = 0
    /\ packet = NoPacket
    /\ replies = <<>>
    /\ channel_window = NoChannel
    /\ client_banner = <<>>
    /\ client_id = <<>>
    /\ server_kex_init_payload = <<>>
    /\ client_kex_init_payload = <<>>
    /\ shared_secret = <<>>
    /\ exchange_hash = <<>>
    /\ session_id = <<>>
    /\ encryption_keys = NoKeys
    /\ sequence_number_server_to_client = 0
    /\ read = ReadConnection_new
    /\ conn = NoConn
    /\ terminal_session = TerminalSession_new(FullSite)

SshInit ==
    /\ pc = "Start"
    /\ SshLocalsInit

\* No connection: the state of the session's variables while the codec or the
\* record layer is exercised on its own.
SshIdle ==
    /\ pc = "Idle"
    /\ SshLocalsInit

\* An entry of sent: a write to the socket outside the encrypted connection.
Plain(m) == [msg |-> m, encrypted |-> FALSE, seq |-> -1, mac |-> <<>>]

\* The task ends: Ok(()), Err(e) or a panic; the socket halves are dropped.
Close(how) ==
    /\ pc' = "Closed"
    /\ result' = how

\* The server's arithmetic on a negative payload length: a panic where
\* overflow is checked, an error from the reads that follow where it wraps.
UnderflowOutcomes == {"panic", "wrapped"}

\* conn.write_packet(m) for each m of packets, in order.
RECURSIVE write_packets(_, _, _)
written_packets(w, log, packets) ==
    write_packets(w.conn,
                  Append(log, [msg |-> packets[1], encrypted |-> TRUE,
                               seq |-> w.seq, mac |-> w.mac]),
                  Tail(packets))

write_packets(c, log, packets) ==
    IF packets = <<>> THEN [conn |-> c, sent |-> log]
    ELSE written_packets(EncryptedConnection_write_packet(c, packets[1]), log, packets)

\* The frames a client may put on the wire: its payloads framed as
\* write_payload frames them, and two ill-formed headers (packet_length 0;
\* padding_length + 1 > packet_length).
IllFormedFrames == {<<0, 0, 0, 0>>, <<0, 0, 0, 1, 9>>}

ClientFrames ==
    {write_payload(p, IF read.cipher.some THEN AesKeySize ELSE NoBlockSize) :
        p \in IF read.cipher.some THEN ClientPayloads \ KeyExchangePayloads
              ELSE ClientPayloads}
    \cup IllFormedFrames

\* The tag a client computes for its frame, and a tag that is not it.
GoodMac(frame) ==
    hmac_sha256(encryption_keys.integrity_key_client_to_server,
                u32_be(packets_read) \o frame)

BadMac(frame) ==
    LET good == GoodMac(frame)
    IN  [i \in 1..MacLen |-> 255 - good[i]]

ClientMacs(frame) ==
    IF read.integrity_key.some THEN {GoodMac(frame), BadMac(frame)} ELSE {<<>>}

\* The octets of one packet as the client sends them.
Wire(frame, mac) == MaybeDecrypt(read.cipher, frame).data \o mac

\* ReadConnection::read_packet: read_payload, then read_message.
read_packet_message(r) == IF r.result = "ok" THEN read_message(r.payload) ELSE Err

read_packet_result(r, m) ==
    [result |-> IF r.result = "ok" /\ m = Err THEN "err" ELSE r.result,
     payload |-> r.payload, read |-> r.read, consumed |-> r.consumed,
     mac |-> r.mac, msg |-> m]

read_packet_after(r) == read_packet_result(r, read_packet_message(r))

read_packet(stream) == read_packet_after(read_payload(read, stream))

\* The next read of a packet, for each packet the client may send next: the
\* frame and the tag sent, and what read_packet returns for them.
NextReads ==
    UNION {{[frame |-> frame, mac |-> mac, r |-> read_packet(Wire(frame, mac))] :
               mac \in ClientMacs(frame)} : frame \in ClientFrames}

\* What every read of a packet does to the connection's state.
Logged(p) ==
    /\ received' = Append(received, [phase |-> pc, frame |-> p.frame, mac |-> p.mac,
                                     result |-> p.r.result, payload |-> p.r.payload,
                                     msg |-> p.r.msg])
    /\ packets_read' = packets_read + 1
    /\ UNCHANGED <<packet, replies, channel_window>>

Received(p) ==
    /\ Logged(p)
    /\ read' = p.r.read

\* The task starts: the identification line is written.
Start ==
    /\ pc = "Start"
    /\ UNCHANGED <<codec, record, loader, term, layout, drawn, udp, qotd, process, gemtext, media, sequence, framed, mpint, banner, wire>>
    /\ UNCHANGED <<packets_read, packet, replies, channel_window>>
    /\ sent' = Append(sent, Plain([type |-> "Identification", line |-> server_id \o CRLF]))
    /\ pc' = "ReadClientId"
    /\ UNCHANGED <<result, received, client_banner, client_id, server_kex_init_payload,
                   client_kex_init_payload, shared_secret, exchange_hash, session_id,
                   encryption_keys, sequence_number_server_to_client, read, conn,
                   terminal_session>>

\* read.next() returns None: the client closed before sending anything.
ReadClientIdClosed ==
    /\ pc = "ReadClientId"
    /\ UNCHANGED <<codec, record, loader, term, layout, drawn, udp, qotd, process, gemtext, media, sequence, framed, mpint, banner, wire>>
    /\ UNCHANGED <<packets_read, packet, replies, channel_window>>
    /\ Close("err")
    /\ UNCHANGED <<sent, received, client_banner, client_id, server_kex_init_payload,
                   client_kex_init_payload, shared_secret, exchange_hash, session_id,
                   encryption_keys, sequence_number_server_to_client, read, conn,
                   terminal_session>>

\* The first read of the socket is taken as the client's identification line
\* without its last two octets; then the server's KexInit is sent.
ReadClientId ==
    /\ pc = "ReadClientId"
    /\ UNCHANGED <<codec, record, loader, term, layout, drawn, udp, qotd, process, gemtext, media, sequence, framed, mpint, banner, wire>>
    /\ UNCHANGED <<packets_read, packet, replies, channel_window>>
    /\ \E bytes \in ClientFirstReads, cookie \in {Cookie1} :
          /\ client_banner' = bytes
          /\ IF Len(bytes) < 2
             THEN /\ Close("panic")
                  /\ UNCHANGED <<sent, client_id, server_kex_init_payload,
                                 sequence_number_server_to_client>>
             ELSE IF ~is_utf8(Take(bytes, Len(bytes) - 2))
             THEN /\ Close("err")
                  /\ UNCHANGED <<sent, client_id, server_kex_init_payload,
                                 sequence_number_server_to_client>>
             ELSE /\ client_id' = Take(bytes, Len(bytes) - 2)
                  /\ server_kex_init_payload' = write_message(ServerKexInit(cookie)).buf
                  /\ sent' = Append(sent, Plain(ServerKexInit(cookie)))
                  /\ sequence_number_server_to_client' = sequence_number_server_to_client + 1
                  /\ pc' = "AwaitKexInit"
                  /\ UNCHANGED result
    /\ UNCHANGED <<received, client_kex_init_payload, shared_secret, exchange_hash,
                   session_id, encryption_keys, read, conn, terminal_session>>

\* A read that ends the task before any message is dispatched: the stream
\* ended, the header was ill-formed, or the payload is no message.
FailedRead(r, ok_when_error) ==
    \/ /\ r.result = "err"
       /\ Close(IF ok_when_error THEN "ok" ELSE "err")
    \/ /\ r.result = "underflow"
       /\ \E outcome \in UnderflowOutcomes :
             Close(IF outcome = "panic" THEN "panic"
                   ELSE IF ok_when_error THEN "ok" ELSE "err")

\* The peer closes the socket while the server waits for a packet.
PeerClosed ==
    /\ pc \in {"AwaitKexInit", "AwaitKexEcdhInit", "AwaitNewKeys", "Encrypted"}
    /\ UNCHANGED <<codec, record, loader, term, layout, drawn, udp, qotd, process, gemtext, media, sequence, framed, mpint, banner, wire>>
    /\ UNCHANGED <<packets_read, packet, replies, channel_window>>
    /\ LET r == read_packet(<<>>)
       IN  /\ r.result = "err"
           /\ Close(IF pc = "Encrypted" THEN "ok" ELSE "err")
    /\ UNCHANGED <<sent, received, client_banner, client_id, server_kex_init_payload,
                   client_kex_init_payload, shared_secret, exchange_hash, session_id,
                   encryption_keys, sequence_number_server_to_client, read, conn,
                   terminal_session>>

\* receive key exchange: the client's KexInit.
AwaitKexInit ==
    /\ pc = "AwaitKexInit"
    /\ UNCHANGED <<codec, record, loader, term, layout, drawn, udp, qotd, process, gemtext, media, sequence, framed, mpint, banner, wire>>
    /\ packets_read < MaxPackets
    /\ \E p \in NextReads :
          /\ Received(p)
          /\ \/ /\ FailedRead(p.r, FALSE)
                /\ UNCHANGED client_kex_init_payload
             \/ /\ p.r.result = "ok"
                /\ p.r.msg.type = "KexInit"
                /\ client_kex_init_payload' = p.r.payload
                /\ pc' = "AwaitKexEcdhInit"
                /\ UNCHANGED result
             \/ /\ p.r.result = "ok"
                /\ p.r.msg.type # "KexInit"
                /\ Close("err")
                /\ UNCHANGED client_kex_init_payload
    /\ UNCHANGED <<sent, client_banner, client_id, server_kex_init_payload, shared_secret,
                   exchange_hash, session_id, encryption_keys,
                   sequence_number_server_to_client, conn, terminal_session>>

\* K_S: string "ssh-ed25519", bytes keypair.public
server_public_host_key == write_string(S_ssh_ed25519) \o write_bytes(verifying_key(keypair))

\* A key exchange whose secret does not depend on the client's public key.
kex_shared_secret_own(server_secret, client_public_key) == basepoint_mul(server_secret)

\* The shared secret the KexEcdhInit arm computes.
kex_shared_secret(server_secret, client_public_key) ==
    montgomery_mul(server_secret, client_public_key)

\* The Exchange the KexEcdhInit arm hashes.
kex_exchange(client_public_key, server_public_key) ==
    [client_id |-> client_id, server_id |-> server_id,
     client_kex_init |-> client_kex_init_payload,
     server_kex_init |-> server_kex_init_payload,
     client_ephemeral |-> client_public_key,
     server_ephemeral |-> server_public_key]

\* The values the KexEcdhInit arm computes before it replies; panicked when
\* compute_exchange_hash panics.
kex_signed(shared, server_public_key, hash) ==
    [panicked |-> hash.panicked,
     shared_secret |-> shared,
     server_public_key |-> server_public_key,
     exchange_hash |-> hash.buf,
     signature |-> IF hash.panicked THEN <<>> ELSE add_signature(keypair, hash.buf)]

kex_hashed(shared, client_public_key, server_public_key) ==
    kex_signed(shared, server_public_key,
               compute_exchange_hash(server_public_host_key, shared,
                                     kex_exchange(client_public_key, server_public_key)))

kex_reply(server_secret, client_public_key) ==
    kex_hashed(kex_shared_secret(server_secret, client_public_key),
               client_public_key, basepoint_mul(server_secret))

\* What the arms of the first loop that do not reply leave alone.
KexQuiet ==
    UNCHANGED <<sent, shared_secret, exchange_hash, session_id, encryption_keys,
                sequence_number_server_to_client>>

\* The first loop: Disconnect, KexEcdhInit, or anything else.
AwaitKexEcdhInit ==
    /\ pc = "AwaitKexEcdhInit"
    /\ UNCHANGED <<codec, record, loader, term, layout, drawn, udp, qotd, process, gemtext, media, sequence, framed, mpint, banner, wire>>
    /\ packets_read < MaxPackets
    /\ \E p \in NextReads, server_secret \in ServerSecrets :
          /\ Received(p)
          /\ \/ /\ FailedRead(p.r, FALSE)
                /\ KexQuiet
             \/ /\ p.r.result = "ok"
                /\ p.r.msg.type # "KexEcdhInit"
                /\ Close("err")
                /\ KexQuiet
             \/ /\ p.r.result = "ok"
                /\ p.r.msg.type = "KexEcdhInit"
                /\ Len(p.r.msg.client_public_key) # KeyLen
                /\ Close("err")
                /\ KexQuiet
             \/ /\ p.r.result = "ok"
                /\ p.r.msg.type = "KexEcdhInit"
                /\ Len(p.r.msg.client_public_key) = KeyLen
                /\ \E kex \in {kex_reply(server_secret, p.r.msg.client_public_key)} :
                      IF kex.panicked
                      THEN /\ Close("panic")
                           /\ KexQuiet
                      ELSE /\ shared_secret' = kex.shared_secret
                           /\ exchange_hash' = kex.exchange_hash
                           /\ sent' = sent \o
                                 <<Plain([type |-> "KexEcdhReply",
                                          server_public_host_key |-> server_public_host_key,
                                          server_public_key |-> kex.server_public_key,
                                          signature |-> kex.signature]),
                                   Plain([type |-> "NewKeys"])>>
                           /\ sequence_number_server_to_client' =
                                 sequence_number_server_to_client + 2
                           /\ session_id' = kex.exchange_hash
                           /\ encryption_keys' =
                                 compute_keys(kex.shared_secret, kex.exchange_hash,
                                              kex.exchange_hash,
                                              AesKeySize, AesIvSize, MacKeySize)
                           /\ pc' = "AwaitNewKeys"
                           /\ UNCHANGED result
    /\ UNCHANGED <<client_banner, client_id, server_kex_init_payload,
                   client_kex_init_payload, conn, terminal_session>>

\* A read side that is given the cipher and no integrity key.
install_read_keys_untagged(rd, keys) ==
    set_cipher(rd, keys.encryption_key_client_to_server, keys.initial_iv_client_to_server)

\* The read side after NewKeys: set_cipher, then the integrity key.
install_read_keys(rd, keys) ==
    [set_cipher(rd, keys.encryption_key_client_to_server, keys.initial_iv_client_to_server)
        EXCEPT !.integrity_key = [some |-> TRUE, key |-> keys.integrity_key_client_to_server]]

\* The second loop: wait for the client's NewKeys, then enable encryption.
AwaitNewKeys ==
    /\ pc = "AwaitNewKeys"
    /\ UNCHANGED <<codec, record, loader, term, layout, drawn, udp, qotd, process, gemtext, media, sequence, framed, mpint, banner, wire>>
    /\ packets_read < MaxPackets
    /\ \E p \in NextReads :
          /\ Logged(p)
          /\ \/ /\ FailedRead(p.r, FALSE)
                /\ read' = p.r.read
                /\ UNCHANGED <<conn, terminal_session>>
             \/ /\ p.r.result = "ok"
                /\ p.r.msg.type # "NewKeys"
                /\ Close("err")
                /\ read' = p.r.read
                /\ UNCHANGED <<conn, terminal_session>>
             \/ /\ p.r.result = "ok"
                /\ p.r.msg.type = "NewKeys"
                /\ read' = install_read_keys(p.r.read, encryption_keys)
                /\ conn' = EncryptedConnection_new(encryption_keys,
                                                   sequence_number_server_to_client)
                /\ terminal_session' = TerminalSession_new(FullSite)
                /\ pc' = "Encrypted"
                /\ UNCHANGED result
    /\ UNCHANGED <<sent, client_banner, client_id, server_kex_init_payload,
                   client_kex_init_payload, shared_secret, exchange_hash, session_id,
                   encryption_keys, sequence_number_server_to_client>>

\* The main loop reads a packet.
Dispatched(p) ==
    /\ packet' = [some |-> TRUE, index |-> packets_read, frame |-> p.frame, mac |-> p.mac,
                  result |-> p.r.result, payload |-> p.r.payload, msg |-> p.r.msg]
    /\ packets_read' = packets_read + 1
    /\ read' = p.r.read

\* conn.write_packet for each of packets.
Reply(packets) ==
    \E w \in {write_packets(conn, <<>>, packets)} :
       /\ conn' = w.conn
       /\ replies' = w.sent

\* Nothing is written for the packet.
NoReply ==
    /\ replies' = <<>>
    /\ UNCHANGED conn

\* The octets of channel data in the packets written.
RECURSIVE channel_data_octets(_)
channel_data_octets(packets) ==
    IF packets = <<>> THEN 0
    ELSE (IF packets[1].msg.type = "ChannelData" THEN Len(packets[1].msg.data) ELSE 0)
         + channel_data_octets(Tail(packets))

\* What the client has granted and the server has used of it, after the
\* packet read and the packets written for it.
window_granted(w, r) ==
    IF r.result # "ok" THEN w
    ELSE IF r.msg.type = "ChannelOpen"
    THEN [opened |-> TRUE, granted |-> r.msg.initial_window_size, sent |-> 0,
          maximum_packet_size |-> r.msg.maximum_packet_size]
    ELSE IF r.msg.type = "ChannelWindowAdjust"
    THEN [w EXCEPT !.granted = @ + r.msg.bytes_to_add]
    ELSE w

Accounted(r) ==
    \E w \in {window_granted(channel_window, r)} :
       channel_window' = [w EXCEPT !.sent = @ + channel_data_octets(replies')]

\* The arm of the main loop's match for a ServiceRequest.
OnServiceRequest(m) ==
    /\ m.type = "ServiceRequest"
    /\ IF m.service_name = S_ssh_userauth
       THEN /\ Reply(<<[type |-> "ServiceAccept", service_name |-> m.service_name]>>)
            /\ UNCHANGED <<pc, result>>
       ELSE /\ Close("err")
            /\ NoReply
    /\ UNCHANGED terminal_session

OnDisconnect(m) ==
    /\ m.type = "Disconnect"
    /\ Close("ok")
    /\ NoReply
    /\ UNCHANGED terminal_session

\* A server that turns password authentication down.
OnUserauthRequest_checked(m) ==
    /\ m.type = "UserauthRequest"
    /\ IF m.authentication_method = S_password
       THEN Reply(<<[type |-> "UserauthFailure", authentication_methods |-> <<S_none>>,
                     partial_success |-> FALSE]>>)
       ELSE Reply(<<[type |-> "UserauthSuccess"]>>)
    /\ UNCHANGED <<pc, result, terminal_session>>

OnUserauthRequest(m) ==
    /\ m.type = "UserauthRequest"
    /\ Reply(<<[type |-> "UserauthSuccess"]>>)
    /\ UNCHANGED <<pc, result, terminal_session>>

\* The packets the ChannelOpen arm writes.
channel_open_replies(m) ==
    <<[type |-> "ChannelOpenConfirmation", recipient_channel |-> m.sender_channel,
       sender_channel |-> 0, initial_window_size |-> m.initial_window_size,
       maximum_packet_size |-> m.maximum_packet_size],
      [type |-> "ChannelSuccess", recipient_channel |-> m.sender_channel]>>

OnChannelOpen(m) ==
    /\ m.type = "ChannelOpen"
    /\ Reply(channel_open_replies(m))
    /\ UNCHANGED <<pc, result, terminal_session>>

OnChannelRequest(m) ==
    /\ m.type = "ChannelRequest"
    /\ IF m.extra.kind \in {"Terminal", "WindowChange"}
       THEN \E resized \in {resize(terminal_session, m.extra.width_columns,
                                    m.extra.height_rows)} :
                /\ terminal_session' = resized.ts
                /\ IF resized.panicked
                   THEN NoReply /\ Close("panic")
                   ELSE /\ IF resized.data # <<>>
                           THEN Reply(<<[type |-> "ChannelData",
                                         recipient_channel |-> m.recipient_channel,
                                         data |-> resized.data]>>)
                           ELSE NoReply
                        /\ UNCHANGED <<pc, result>>
       ELSE /\ NoReply
            /\ UNCHANGED <<pc, result, terminal_session>>

OnChannelData(m) ==
    /\ m.type = "ChannelData"
    /\ IF m.data = <<3>> \/ m.data = <<4>>
       THEN /\ Reply(<<[type |-> "ChannelData", recipient_channel |-> m.recipient_channel,
                        data |-> S_bye]>>)
            /\ Close("ok")
            /\ UNCHANGED terminal_session
       ELSE \E typed \in {on_keystroke(terminal_session, m.data)} :
                /\ terminal_session' = typed.ts
                /\ IF typed.panicked
                   THEN NoReply /\ Close("panic")
                   ELSE /\ IF typed.data # <<>>
                           THEN Reply(<<[type |-> "ChannelData",
                                         recipient_channel |-> m.recipient_channel,
                                         data |-> typed.data]>>)
                           ELSE NoReply
                        /\ UNCHANGED <<pc, result>>

OnChannelWindowAdjust(m) ==
    /\ m.type = "ChannelWindowAdjust"
    /\ NoReply
    /\ UNCHANGED <<pc, result, terminal_session>>

\* The message types the main loop's match has an arm for.
HandledTypes ==
    {"ServiceRequest", "Disconnect", "UserauthRequest", "ChannelOpen", "ChannelRequest",
     "ChannelData", "ChannelWindowAdjust"}

\* The `_` arm: println!("unexpected message"), and the loop goes on.
OnUnexpected(m) ==
    /\ m.type \notin HandledTypes
    /\ NoReply
    /\ UNCHANGED <<pc, result, terminal_session>>

\* The main loop: while let Ok(packet) = read.read_packet().await
Encrypted ==
    /\ pc = "Encrypted"
    /\ UNCHANGED <<codec, record, loader, term, layout, drawn, udp, qotd, process, gemtext, media, sequence, framed, mpint, banner, wire>>
    /\ packets_read < MaxPackets
    /\ \E p \in NextReads :
          /\ Dispatched(p)
          /\ \/ /\ FailedRead(p.r, TRUE)
                /\ NoReply
                /\ UNCHANGED terminal_session
             \/ /\ p.r.result = "ok"
                /\ \/ OnServiceRequest(p.r.msg)
                   \/ OnDisconnect(p.r.msg)
                   \/ OnUserauthRequest(p.r.msg)
                   \/ OnChannelOpen(p.r.msg)
                   \/ OnChannelRequest(p.r.msg)
                   \/ OnChannelData(p.r.msg)
                   \/ OnChannelWindowAdjust(p.r.msg)
                   \/ OnUnexpected(p.r.msg)
          /\ Accounted(p.r)
    /\ UNCHANGED <<sent, received, client_banner, client_id, server_kex_init_payload,
                   client_kex_init_payload, shared_secret, exchange_hash, session_id,
                   encryption_keys, sequence_number_server_to_client>>

Next ==
    \/ Start
    \/ ReadClientIdClosed
    \/ ReadClientId
    \/ PeerClosed
    \/ AwaitKexInit
    \/ AwaitKexEcdhInit
    \/ AwaitNewKeys
    \/ Encrypted

(***************************************************************************)
(* The codec on its own: a message is written by write_message and the     *)
(* payload read back by read_message.                                      *)
(***************************************************************************)
NameLists == {<<>>, <<S_a>>, <<S_a, S_b>>, <<S_curve25519_sha256, S_zlib>>, <<<<>>>>, <<S_a_comma_b>>}

Texts == {<<>>, S_a, <<195, 169>>}

Blobs == {<<>>, <<0>>, <<200, 44, 7>>}

Numbers == {0, 1, 65536, 2147483647}

Channels == {0, 7}

\* Every variant of the message model, with a few values in each field.
MessageModel ==
    {[type |-> "Disconnect", reason_code |-> n, description |-> s, language_tag |-> <<>>] :
        n \in Numbers, s \in Texts}
    \cup {[type |-> "Ignore", data |-> b] : b \in Blobs}
    \cup {[type |-> "Unimplemented", packet_sequence_number |-> n] : n \in Numbers}
    \cup {[type |-> "Debug", always_display |-> d, message |-> s, language_tag |-> S_a] :
             d \in BOOLEAN, s \in Texts}
    \cup {[type |-> "ServiceRequest", service_name |-> s] : s \in Texts \cup {S_ssh_userauth}}
    \cup {[type |-> "ServiceAccept", service_name |-> s] : s \in Texts \cup {S_ssh_userauth}}
    \cup {KexInitWith(c, l, l, l, l, l) : c \in {Cookie1, Zeros(16)}, l \in NameLists}
    \cup {ServerKexInit(Cookie1), ClientKexInitMatching, [type |-> "NewKeys"],
          [type |-> "UserauthSuccess"], [type |-> "RequestSuccess"],
          [type |-> "RequestFailure"]}
    \cup {[type |-> "KexEcdhInit", client_public_key |-> b] : b \in Blobs \cup {basepoint_mul(3)}}
    \cup {[type |-> "KexEcdhReply", server_public_host_key |-> server_public_host_key,
           server_public_key |-> b, signature |-> add_signature(keypair, b)] : b \in Blobs}
    \cup {[type |-> "UserauthRequest", username |-> s, service_name |-> S_ssh_connection,
           authentication_method |-> S_password] : s \in Texts}
    \cup {[type |-> "UserauthFailure", authentication_methods |-> l, partial_success |-> d] :
             l \in NameLists, d \in BOOLEAN}
    \cup {[type |-> "UserauthBanner", message |-> s, language_tag |-> S_a] : s \in Texts}
    \cup {[type |-> "GlobalRequest", request_name |-> s, want_reply |-> d] :
             s \in Texts, d \in BOOLEAN}
    \cup {[type |-> "ChannelOpen", channel_type |-> S_session, sender_channel |-> c,
           initial_window_size |-> n, maximum_packet_size |-> 32768] :
             c \in Channels, n \in Numbers}
    \cup {[type |-> "ChannelOpenConfirmation", recipient_channel |-> c, sender_channel |-> 0,
           initial_window_size |-> n, maximum_packet_size |-> 32768] :
             c \in Channels, n \in Numbers}
    \cup {[type |-> "ChannelOpenFailure", recipient_channel |-> c, reason_code |-> 2,
           description |-> s, language_tag |-> <<>>] : c \in Channels, s \in Texts}
    \cup {[type |-> "ChannelWindowAdjust", recipient_channel |-> c, bytes_to_add |-> n] :
             c \in Channels, n \in Numbers}
    \cup {[type |-> "ChannelData", recipient_channel |-> c, data |-> b] :
             c \in Channels, b \in Blobs}
    \cup {[type |-> "ChannelExtendedData", recipient_channel |-> c, data_type_code |-> 1,
           data |-> b] : c \in Channels, b \in Blobs}
    \cup {[type |-> t, recipient_channel |-> c] :
             t \in {"ChannelEof", "ChannelClose", "ChannelSuccess", "ChannelFailure"},
             c \in Channels}
    \cup {ChannelRequestOf(S_pty_req, ExtraTerminal(s, 80, 24, n, 0, b)) :
             s \in Texts, n \in Numbers, b \in Blobs}
    \cup {ChannelRequestOf(S_window_change, ExtraWindowChange(n, 24, 640, 480)) : n \in Numbers}
    \cup {ChannelRequestOf(s, ExtraNone) : s \in {S_shell, S_exec}}

CodecInit ==
    /\ codec \in {[pc |-> "start", message |-> m, written |-> [panicked |-> FALSE, buf |-> <<>>],
                   decoded |-> Err] : m \in MessageModel}

\* write_message(M)
CodecWrite ==
    /\ codec.pc = "start"
    /\ UNCHANGED <<sshVars, record, loader, term, layout, drawn, udp, qotd, process, gemtext, media, sequence, framed, mpint, banner, wire>>
    /\ \E w \in {write_message(codec.message)} :
           codec' = [codec EXCEPT !.written = w,
                                  !.pc = IF w.panicked THEN "panicked" ELSE "written"]

\* read_message(Cursor::new(payload))
CodecRead ==
    /\ codec.pc = "written"
    /\ UNCHANGED <<sshVars, record, loader, term, layout, drawn, udp, qotd, process, gemtext, media, sequence, framed, mpint, banner, wire>>
    /\ codec' = [codec EXCEPT !.decoded = read_message(codec.written.buf), !.pc = "read"]

CodecNext == CodecWrite \/ CodecRead

(***************************************************************************)
(* The record layer on its own: payloads are written by the write path     *)
(* under a key set and read back by the read path under the same key set.  *)
(***************************************************************************)
\* The number of records written on one connection.
MaxRecords == 3

Key(n, len) == [i \in 1..len |-> (n * i) % 256]

KeySets ==
    {[initial_iv_client_to_server |-> Key(k, AesIvSize),
      initial_iv_server_to_client |-> Key(k, AesIvSize),
      encryption_key_client_to_server |-> Key(k + 1, AesKeySize),
      encryption_key_server_to_client |-> Key(k + 1, AesKeySize),
      integrity_key_client_to_server |-> Key(k + 2, MacKeySize),
      integrity_key_server_to_client |-> Key(k + 2, MacKeySize)] : k \in {3, 100}}

RecordPayloads ==
    {<<>>, <<21>>, Key(7, 11), Key(9, 12), Key(5, 27)}

StartSequenceNumbers == {0, 3}

RecordInit ==
    record \in {[pc |-> "open",
                 writer |-> EncryptedConnection_new(k, n),
                 reader |-> install_read_keys(ReadConnection_new, k),
                 first_sequence_number |-> n,
                 written |-> <<>>,
                 stream |-> <<>>,
                 accepted |-> <<>>] : k \in KeySets, n \in StartSequenceNumbers}

\* The write path puts one more record on the stream.
RecordWrite ==
    /\ record.pc = "open"
    /\ UNCHANGED <<sshVars, codec, loader, term, layout, drawn, udp, qotd, process, gemtext, media, sequence, framed, mpint, banner, wire>>
    /\ Len(record.written) < MaxRecords
    /\ \E payload \in RecordPayloads :
          \E w \in {EncryptedConnection_write_payload(record.writer, payload)} :
              record' = [record EXCEPT !.writer = w.conn,
                                       !.written = Append(@, payload),
                                       !.stream = @ \o w.wire]

\* The read path takes the next record off the stream.
RecordRead ==
    /\ record.pc = "open"
    /\ UNCHANGED <<sshVars, codec, loader, term, layout, drawn, udp, qotd, process, gemtext, media, sequence, framed, mpint, banner, wire>>
    /\ record.stream # <<>>
    /\ \E r \in {read_payload(record.reader, record.stream)} :
           IF r.result = "ok"
           THEN record' = [record EXCEPT !.reader = r.read,
                                         !.stream = Drop(@, r.consumed),
                                         !.accepted = Append(@, r.payload)]
           ELSE record' = [record EXCEPT !.reader = r.read, !.pc = "failed"]

RecordNext == RecordWrite \/ RecordRead

(***************************************************************************)
(* The host key file (crypto/ed25519.rs, load_keypair).  Every connection  *)
(* task calls load_keypair at its start (ssh.rs, connection); the tasks    *)
(* are spawned on the threads of the runtime, so the file system calls of  *)
(* one interleave with those of another.  A step is one file system call.  *)
(***************************************************************************)
\* The number of connection tasks that load the key.
MaxLoaders == 2

Loaders == 1..MaxLoaders

\* The seeds generate_new_keypair may draw.
GeneratedSeeds == {Zeros(KeyLen - 1) \o <<n>> : n \in {21, 22}}

\* KEYPAIR_PATH does not exist; it holds these octets.
NoFile == [exists |-> FALSE, bytes |-> <<>>]

FileOf(bytes) == [exists |-> TRUE, bytes |-> bytes]

\* SigningKey::to_keypair_bytes: the seed, then the public key.
to_keypair_bytes(seed) == seed \o verifying_key(seed)

\* The end of load_keypair: a 32-octet seed, a 64-octet keypair whose halves
\* agree, or a panic.
parse_keypair(keypair_bytes) ==
    IF Len(keypair_bytes) = KeyLen
    THEN [ok |-> TRUE, key |-> keypair_bytes]
    ELSE IF Len(keypair_bytes) = KeyLen + KeyLen
            /\ Drop(keypair_bytes, KeyLen) = verifying_key(Take(keypair_bytes, KeyLen))
    THEN [ok |-> TRUE, key |-> Take(keypair_bytes, KeyLen)]
    ELSE [ok |-> FALSE, key |-> <<>>]

LoaderStart == [pc |-> "exists", new_keypair |-> <<>>, keypair_bytes |-> <<>>, key |-> <<>>]

\* The key file when the server starts: none (first run), a seed, a keypair.
KeyFilesAtStart == {NoFile, FileOf(keypair), FileOf(to_keypair_bytes(keypair))}

LoaderInit ==
    loader \in {[file |-> f, at_start |-> f, task |-> [t \in Loaders |-> LoaderStart]] :
                   f \in KeyFilesAtStart}

\* Task t moves on, leaving the file as it is.
Moved(t, task) ==
    /\ loader' = [loader EXCEPT !.task[t] = task]
    /\ UNCHANGED <<sshVars, codec, record, term, layout, drawn, udp, qotd, process, gemtext, media, sequence, framed, mpint, banner, wire>>

\* Task t moves on and the file changes.
Stored(t, task, file) ==
    /\ loader' = [loader EXCEPT !.task[t] = task, !.file = file]
    /\ UNCHANGED <<sshVars, codec, record, term, layout, drawn, udp, qotd, process, gemtext, media, sequence, framed, mpint, banner, wire>>

\* if !keypair_path.exists()
LoaderExists ==
    \E t \in Loaders :
       /\ loader.task[t].pc = "exists"
       /\ Moved(t, [loader.task[t] EXCEPT
                       !.pc = IF loader.file.exists THEN "open" ELSE "generate"])

\* generate_new_keypair(), to_bytes(), create_dir_all
LoaderGenerate ==
    \E t \in Loaders :
       /\ loader.task[t].pc = "generate"
       /\ \E seed \in GeneratedSeeds :
             Moved(t, [loader.task[t] EXCEPT !.pc = "create", !.new_keypair = seed])

\* fs::write, its first half: the file is created, or truncated
LoaderCreate ==
    \E t \in Loaders :
       /\ loader.task[t].pc = "create"
       /\ Stored(t, [loader.task[t] EXCEPT !.pc = "write"], FileOf(<<>>))

\* fs::write, its second half: the octets are written from offset 0 on
LoaderWrite ==
    \E t \in Loaders :
       /\ loader.task[t].pc = "write"
       /\ \E written \in {loader.task[t].new_keypair} :
             Stored(t, [loader.task[t] EXCEPT !.pc = "open"],
                    FileOf(written \o Drop(loader.file.bytes, Len(written))))

\* fs::File::open(keypair_path).unwrap()
LoaderOpen ==
    \E t \in Loaders :
       /\ loader.task[t].pc = "open"
       /\ Moved(t, [loader.task[t] EXCEPT
                       !.pc = IF loader.file.exists THEN "read" ELSE "panicked"])

\* keypair_file.read_to_end(&mut keypair_bytes)
LoaderRead ==
    \E t \in Loaders :
       /\ loader.task[t].pc = "read"
       /\ Moved(t, [loader.task[t] EXCEPT !.pc = "parse",
                                          !.keypair_bytes = loader.file.bytes])

\* the key is made of the octets read, or the task panics
LoaderParse ==
    \E t \in Loaders :
       /\ loader.task[t].pc = "parse"
       /\ \E parsed \in {parse_keypair(loader.task[t].keypair_bytes)} :
             Moved(t, [loader.task[t] EXCEPT
                          !.pc = IF parsed.ok THEN "loaded" ELSE "panicked",
                          !.key = parsed.key])

LoaderNext ==
    \/ LoaderExists
    \/ LoaderGenerate
    \/ LoaderCreate
    \/ LoaderWrite
    \/ LoaderOpen
    \/ LoaderRead
    \/ LoaderParse

(***************************************************************************)
(* A terminal session on its own: a client resizes its window, presses     *)
(* keys and uses the mouse, in any order.  term is the session, the        *)
(* session before the last event, the event, and what its handler          *)
(* returned.                                                               *)
(***************************************************************************)
ViewportSizes == {<<100, 30>>, <<30, 8>>}

\* The number as the client writes it: its decimal digits
RECURSIVE decimal(_)
decimal(n) ==
    IF n < 10 THEN <<48 + n>> ELSE Append(decimal(n \div 10), 48 + (n % 10))

\* "\x1b[<" button ";" px ";" py and the final character
mouse_keys(button, px, py, last) ==
    <<27, 91, 60>> \o button \o <<59>> \o decimal(px) \o <<59>> \o decimal(py) \o <<last>>

PressedKeys ==
    {<<9>>, <<27, 91, 90>>, <<13>>, <<27, 91, 66>>, <<27, 91, 65>>,
     <<27, 91, 53, 126>>, <<27, 91, 54, 126>>, <<120>>,
     mouse_keys(<<54, 53>>, 1, 1, 77), mouse_keys(<<54, 52>>, 1, 1, 77),
     mouse_keys(<<48>>, 1, 1, 77), mouse_keys(<<51, 53>>, 3, 2, 77),
     <<27, 91, 60>>, <<27, 91, 60, 48, 59, 53, 77>>, <<27, 91, 60, 54, 53, 59, 120, 59, 49, 77>>}

\* The links of the page the client sees that start inside the window
VisibleLinks(ts) ==
    LET links == page(ts).links
    IN  {links[i] : i \in {j \in 1..Len(links) : links[j].x0 >= 0 /\ links[j].y0 >= 0}}

\* Pressing and releasing the left button on the first cell of a link
ClickKeys(ts) ==
    UNION {{mouse_keys(<<48>>, l.x0 + 1, l.y0 + 1, 77),
            mouse_keys(<<48>>, l.x0 + 1, l.y0 + 1, 109)} : l \in VisibleLinks(ts)}

\* The session an event leaves.  The event, the session before it and what
\* the handler returned are kept when the event is watched, and a watched
\* event is the last of its run.
Unwatched(ts, panicked) ==
    [ts |-> ts, watched |-> FALSE, before |-> ts, event |-> [kind |-> "none"],
     out |-> <<>>, panicked |-> panicked, renders |-> 0]

TermOf(ts, event, returned, watched) ==
    IF watched
    THEN [ts |-> returned.ts, watched |-> TRUE, before |-> ts, event |-> event,
          out |-> returned.data, panicked |-> returned.panicked,
          renders |-> returned.renders]
    ELSE Unwatched(returned.ts, returned.panicked)

TermInit ==
    \E site_data \in SiteDatas : term = Unwatched(TerminalSession_new(site_data), FALSE)

TermResize ==
    /\ ~term.watched /\ ~term.panicked
    /\ \E size \in ViewportSizes :
          \E returned \in {resize(term.ts, size[1], size[2])}, watched \in BOOLEAN :
              term' = TermOf(term.ts, [kind |-> "resize", width |-> size[1],
                                       height |-> size[2]], returned, watched)
    /\ UNCHANGED <<sshVars, codec, record, loader, layout, drawn, udp, qotd, process, gemtext, media, sequence, framed, mpint, banner, wire>>

TermKeystroke ==
    /\ ~term.watched /\ ~term.panicked
    /\ \E keys \in PressedKeys :
          \E returned \in {on_keystroke(term.ts, keys)}, watched \in BOOLEAN :
              term' = TermOf(term.ts, [kind |-> "keys", keys |-> keys], returned, watched)
    /\ UNCHANGED <<sshVars, codec, record, loader, layout, drawn, udp, qotd, process, gemtext, media, sequence, framed, mpint, banner, wire>>

TermMouse ==
    /\ ~term.watched /\ ~term.panicked
    /\ \E keys \in ClickKeys(term.ts) :
          \E returned \in {on_keystroke(term.ts, keys)}, watched \in BOOLEAN :
              term' = TermOf(term.ts, [kind |-> "keys", keys |-> keys], returned, watched)
    /\ UNCHANGED <<sshVars, codec, record, loader, layout, drawn, udp, qotd, process, gemtext, media, sequence, framed, mpint, banner, wire>>

TermNext == TermResize \/ TermKeystroke \/ TermMouse

(***************************************************************************)
(* One Text rendered on its own, character by character                    *)
(* (terminal/elements.rs, Element::render).  layout is the text, how far   *)
(* the loop over its characters is, the word collected, the position, and  *)
(* the words written: where each starts, its length, and whether it was    *)
(* inside the window and so pushed to the result.                          *)
(***************************************************************************)
WrapTexts ==
    {Spaced(<<3, 4>>) \o <<NL, 2>>, <<12>>, <<2, TAB, 5, SP, SP, 3>>, <<NL, NL, 4, 4, SP>>}

WrapRects ==
    {[left |-> l, top |-> 0, width |-> w, height |-> 4] : l \in {0, 3}, w \in {0, 6, 10}}

WrapWindow == [left |-> 0, top |-> 0, width |-> 13, height |-> 2]

\* flush_word: where the word is written, and whether it is pushed
word_written(pos, word_length, parent_rect, window) ==
    LET flushed == flush_word(pos, word_length, parent_rect)
    IN  [x |-> flushed.x - word_length, y |-> flushed.y, length |-> word_length,
         in_window |-> flushed.y >= 0 /\ flushed.y < window.height]

WrapInit ==
    \E t \in WrapTexts, rect \in WrapRects, dx \in {0, 4}, y \in {-1, 0} :
        layout = [text |-> t, i |-> 1, word |-> 0,
                  pos |-> [x |-> rect.left + dx, y |-> y], parent_rect |-> rect,
                  words |-> <<>>, last |-> 0, line_before |-> y, done |-> FALSE]

\* word.push(c), for the characters of one run
WrapPush ==
    /\ layout.i <= Len(layout.text)
    /\ layout.text[layout.i] >= 0
    /\ layout' = [layout EXCEPT !.i = @ + 1, !.word = @ + layout.text[layout.i],
                                !.last = layout.text[layout.i]]
    /\ UNCHANGED <<sshVars, codec, record, loader, term, drawn, udp, qotd, process, gemtext, media, sequence, framed, mpint, banner, wire>>

\* ' ', '\t', '\n': flush_word, then the position moves
WrapSeparator ==
    /\ layout.i <= Len(layout.text)
    /\ layout.text[layout.i] < 0
    /\ layout' = [layout EXCEPT
          !.i = @ + 1, !.word = 0, !.last = layout.text[layout.i],
          !.line_before = layout.pos.y,
          !.words = Append(@, word_written(layout.pos, layout.word, layout.parent_rect,
                                           WrapWindow)),
          !.pos = after_separator(flush_word(layout.pos, layout.word, layout.parent_rect),
                                  layout.text[layout.i], layout.parent_rect)]
    /\ UNCHANGED <<sshVars, codec, record, loader, term, drawn, udp, qotd, process, gemtext, media, sequence, framed, mpint, banner, wire>>

\* The flush_word after the loop
WrapEnd ==
    /\ layout.i = Len(layout.text) + 1
    /\ ~layout.done
    /\ layout' = [layout EXCEPT
          !.done = TRUE, !.word = 0, !.last = 0,
          !.words = Append(@, word_written(layout.pos, layout.word, layout.parent_rect,
                                           WrapWindow)),
          !.pos = flush_word(layout.pos, layout.word, layout.parent_rect)]
    /\ UNCHANGED <<sshVars, codec, record, loader, term, drawn, udp, qotd, process, gemtext, media, sequence, framed, mpint, banner, wire>>

WrapNext == WrapPush \/ WrapSeparator \/ WrapEnd

(***************************************************************************)
(* The specifications.                                                     *)
(***************************************************************************)
Init == SshInit /\ codec = Idle /\ record = Idle /\ loader = Idle /\ term = Idle /\ layout = Idle /\ drawn = Idle /\ udp = Idle /\ qotd = Idle /\ process = Idle /\ gemtext = Idle /\ media = Idle /\ sequence = Idle /\ framed = Idle /\ mpint = Idle /\ banner = Idle /\ wire = Idle

\* One SSH connection, from accept to the end of its task.
Spec == Init /\ [][Next]_vars

CodecSpecInit == SshIdle /\ CodecInit /\ record = Idle /\ loader = Idle /\ term = Idle /\ layout = Idle /\ drawn = Idle /\ udp = Idle /\ qotd = Idle /\ process = Idle /\ gemtext = Idle /\ media = Idle /\ sequence = Idle /\ framed = Idle /\ mpint = Idle /\ banner = Idle /\ wire = Idle

\* write_message followed by read_message.
CodecSpec == CodecSpecInit /\ [][CodecNext]_vars

RecordSpecInit == SshIdle /\ codec = Idle /\ RecordInit /\ loader = Idle /\ term = Idle /\ layout = Idle /\ drawn = Idle /\ udp = Idle /\ qotd = Idle /\ process = Idle /\ gemtext = Idle /\ media = Idle /\ sequence = Idle /\ framed = Idle /\ mpint = Idle /\ banner = Idle /\ wire = Idle

\* The write path followed by the read path.
RecordSpec == RecordSpecInit /\ [][RecordNext]_vars

KeySpecInit == SshIdle /\ codec = Idle /\ record = Idle /\ LoaderInit /\ term = Idle /\ layout = Idle /\ drawn = Idle /\ udp = Idle /\ qotd = Idle /\ process = Idle /\ gemtext = Idle /\ media = Idle /\ sequence = Idle /\ framed = Idle /\ mpint = Idle /\ banner = Idle /\ wire = Idle

\* Connection tasks loading the host key, each on its own worker thread.
KeySpec == KeySpecInit /\ [][LoaderNext]_vars

TerminalSpecInit == SshIdle /\ codec = Idle /\ record = Idle /\ loader = Idle /\ TermInit /\ layout = Idle /\ drawn = Idle /\ udp = Idle /\ qotd = Idle /\ process = Idle /\ gemtext = Idle /\ media = Idle /\ sequence = Idle /\ framed = Idle /\ mpint = Idle /\ banner = Idle /\ wire = Idle

TerminalSpec == TerminalSpecInit /\ [][TermNext]_vars

WrapSpecInit == SshIdle /\ codec = Idle /\ record = Idle /\ loader = Idle /\ term = Idle /\ WrapInit /\ drawn = Idle /\ udp = Idle /\ qotd = Idle /\ process = Idle /\ gemtext = Idle /\ media = Idle /\ sequence = Idle /\ framed = Idle /\ mpint = Idle /\ banner = Idle /\ wire = Idle

\* The loop of Element::render over the characters of one Text.
WrapSpec == WrapSpecInit /\ [][WrapNext]_vars

(***************************************************************************)
(* The page of a blog post, drawn for any context (terminal/mod.rs,        *)
(* blog_post_page and Page::new): drawn is the context the page is asked   *)
(* for and, once drawn, the page.                                          *)
(***************************************************************************)
BarePost == [title |-> <<>>, slug |-> "bare", content |-> <<>>]

PostSites == {FullSite, [projects |-> <<>>, blog |-> <<BarePost>>]}

PostWidths == {0, 1, 30, 80, 200}

PostHeights == {0, 1, 8, 30, 200}

PostScrolls == {0, 1, 7, 50, 1000}

PostFocus == {NoLink, 0, 3}

PostInit ==
    \E site_data \in PostSites, width \in PostWidths, height \in PostHeights,
       scroll \in PostScrolls, link_index \in PostFocus :
       \E i \in 1..Len(site_data.blog) :
          drawn = [ctx |-> [location |-> BlogPost(site_data.blog[i].slug), width |-> width,
                            height |-> height, site_data |-> site_data,
                            link_index |-> link_index, scroll |-> scroll],
                   page |-> [some |-> FALSE]]

\* blog_post_page(&mut self.ctx, slug)
PostDraw ==
    /\ ~drawn.page.some
    /\ \E of \in {page(drawn.ctx)} :
          drawn' = [drawn EXCEPT !.page = [some |-> TRUE, ctx |-> of.ts, ok |-> of.ok,
                                           out |-> of.out, renders |-> of.renders,
                                           page_height |-> of.page_height]]
    /\ UNCHANGED <<sshVars, codec, record, loader, term, layout, udp, qotd, process, gemtext, media, sequence, framed, mpint, banner, wire>>

PostNext == PostDraw

PostSpecInit == SshIdle /\ codec = Idle /\ record = Idle /\ loader = Idle /\ term = Idle /\ layout = Idle /\ PostInit /\ udp = Idle /\ qotd = Idle /\ process = Idle /\ gemtext = Idle /\ media = Idle /\ sequence = Idle /\ framed = Idle /\ mpint = Idle /\ banner = Idle /\ wire = Idle

PostSpec == PostSpecInit /\ [][PostNext]_vars

(***************************************************************************)
(* The quote of the day over UDP (protocols/qotd.rs, Qotd::serve).  Time   *)
(* is counted in seconds.  udp is the clock, the message, the limiter's    *)
(* queue of timestamps and its back-off, and what arrived: for the         *)
(* datagrams that arrived together, when, how many, and how many were      *)
(* answered (the first ones: a datagram that is dropped starts or meets a  *)
(* back-off that lasts beyond that instant), the most timestamps the       *)
(* queue held after one of them, whether a back-off was in force when      *)
(* they arrived and whether they left the limiter as it was; reply is      *)
(* what the last ones were answered with, <<>> when none was.              *)
(***************************************************************************)
MaxKept == 120

RateWindow == 60

MaxBursts == 3

Messages == {<<81, 10>>, <<82, 10>>}

Bursts == {1, 120}

Delays == {2, 59, 60, 120}

\* while udp_request_timestamps.len() > 120 { pop_front }
RECURSIVE trimmed(_)
trimmed(timestamps) ==
    IF Len(timestamps) > MaxKept THEN trimmed(Tail(timestamps)) ELSE timestamps

\* The limiter after the back-off has run out.
resumed(limiter) ==
    IF limiter.ratelimited_until.some
    THEN [udp_request_timestamps |-> trimmed(limiter.udp_request_timestamps),
          ratelimited_until |-> [some |-> FALSE]]
    ELSE limiter

\* A limiter that starts a back-off whenever it keeps more than 120
\* timestamps, however old the oldest is.
counted_whatever_elapsed(limiter, now) ==
    IF Len(limiter.udp_request_timestamps) > MaxKept
    THEN [limiter |-> [udp_request_timestamps |-> Tail(limiter.udp_request_timestamps),
                       ratelimited_until |->
                          [some |-> TRUE,
                           time |-> Head(limiter.udp_request_timestamps) + RateWindow]],
          answered |-> FALSE]
    ELSE [limiter |-> [limiter EXCEPT !.udp_request_timestamps = Append(@, now)],
          answered |-> TRUE]

\* A limiter that takes off the oldest timestamp and counts the request
\* however young the oldest is.
counted_whatever_age(limiter, now) ==
    IF Len(limiter.udp_request_timestamps) > MaxKept
    THEN [limiter |-> [limiter EXCEPT !.udp_request_timestamps = Append(Tail(@), now)],
          answered |-> TRUE]
    ELSE [limiter |-> [limiter EXCEPT !.udp_request_timestamps = Append(@, now)],
          answered |-> TRUE]

\* The request is counted: with more than 120 timestamps kept the oldest
\* is taken off, and when that is younger than the window the back-off
\* starts and the request is dropped.
counted(limiter, now) ==
    IF Len(limiter.udp_request_timestamps) > MaxKept
    THEN LET oldest == Head(limiter.udp_request_timestamps)
         IN  IF now - oldest < RateWindow
             THEN [limiter |-> [udp_request_timestamps |->
                                   Tail(limiter.udp_request_timestamps),
                                ratelimited_until |->
                                   [some |-> TRUE, time |-> oldest + RateWindow]],
                   answered |-> FALSE]
             ELSE [limiter |-> [limiter EXCEPT !.udp_request_timestamps =
                                                  Append(Tail(@), now)],
                   answered |-> TRUE]
    ELSE [limiter |-> [limiter EXCEPT !.udp_request_timestamps = Append(@, now)],
          answered |-> TRUE]

\* A pass of the loop that does not look at the back-off.
on_datagram_unlimited(limiter, now) == counted(limiter, now)

\* One pass of the loop for a datagram received at now: the limiter it
\* leaves and whether the message is sent.
on_datagram(limiter, now) ==
    IF limiter.ratelimited_until.some /\ now < limiter.ratelimited_until.time
    THEN [limiter |-> limiter, answered |-> FALSE]
    ELSE counted(resumed(limiter), now)

\* The loop over count datagrams received at now: the limiter it leaves,
\* how many were answered (the first half of them, then the rest), and
\* the most timestamps the queue held after a pass.
RECURSIVE on_datagrams(_, _, _)
on_datagrams(limiter, now, count) ==
    IF count = 0
    THEN [limiter |-> limiter, answered |-> 0, kept |-> Len(limiter.udp_request_timestamps)]
    ELSE IF count = 1
    THEN Bind(on_datagram(limiter, now),
              LAMBDA passed : [limiter |-> passed.limiter,
                               answered |-> IF passed.answered THEN 1 ELSE 0,
                               kept |-> Len(passed.limiter.udp_request_timestamps)])
    ELSE Bind(on_datagrams(limiter, now, count \div 2),
              LAMBDA head :
                 Bind(on_datagrams(head.limiter, now, count - count \div 2),
                      LAMBDA rest : [limiter |-> rest.limiter,
                                     answered |-> head.answered + rest.answered,
                                     kept |-> Max(head.kept, rest.kept)]))

\* Instant::now() < ratelimited_until_time
backing_off(limiter, now) ==
    limiter.ratelimited_until.some /\ now < limiter.ratelimited_until.time

UdpInit ==
    \E message \in Messages :
       udp = [now |-> 0, message |-> message,
              limiter |-> [udp_request_timestamps |-> <<>>,
                           ratelimited_until |-> [some |-> FALSE]],
              arrived |-> <<>>, reply |-> <<>>, waited |-> FALSE]

\* Time passes until the next datagram.
UdpWait ==
    /\ ~udp.waited
    /\ \E delay \in Delays : udp' = [udp EXCEPT !.now = @ + delay, !.waited = TRUE]
    /\ UNCHANGED <<sshVars, codec, record, loader, term, layout, drawn, qotd, process, gemtext, media, sequence, framed, mpint, banner, wire>>

\* udp_listener.recv_from returns, for datagrams that arrive together
UdpReceive ==
    /\ Len(udp.arrived) < MaxBursts
    /\ \E count \in Bursts :
          \E passed \in {on_datagrams(udp.limiter, udp.now, count)} :
             udp' = [udp EXCEPT !.limiter = passed.limiter,
                                !.waited = FALSE,
                                !.reply = IF passed.answered > 0 THEN udp.message
                                          ELSE <<>>,
                                !.arrived = Append(@, [at |-> udp.now, count |-> count,
                                                       answered |-> passed.answered,
                                                       kept |-> passed.kept,
                                                       limited |->
                                                          backing_off(udp.limiter, udp.now),
                                                       same |->
                                                          passed.limiter = udp.limiter])]
    /\ UNCHANGED <<sshVars, codec, record, loader, term, layout, drawn, qotd, process, gemtext, media, sequence, framed, mpint, banner, wire>>

\* The message is replaced under the write lock (http.rs, respond).
UdpMessage ==
    /\ \E message \in Messages \ {udp.message} : udp' = [udp EXCEPT !.message = message]
    /\ UNCHANGED <<sshVars, codec, record, loader, term, layout, drawn, qotd, process, gemtext, media, sequence, framed, mpint, banner, wire>>

UdpNext == UdpWait \/ UdpReceive \/ UdpMessage

UdpSpecInit == SshIdle /\ codec = Idle /\ record = Idle /\ loader = Idle /\ term = Idle /\ layout = Idle /\ drawn = Idle /\ UdpInit /\ qotd = Idle /\ process = Idle /\ gemtext = Idle /\ media = Idle /\ sequence = Idle /\ framed = Idle /\ mpint = Idle /\ banner = Idle /\ wire = Idle

UdpSpec == UdpSpecInit /\ [][UdpNext]_vars

(***************************************************************************)
(* The quote of the day over TCP and its HTTP control (protocols/qotd.rs,  *)
(* Qotd::serve, and protocols/http.rs, respond).  qotd is the message in   *)
(* memory, the message file and the secret file, the POST requests whose   *)
(* file is written and whose message is not yet stored, the TCP            *)
(* connections accepted (with the message of the last POST answered 200    *)
(* when they were accepted, and what they received), and the last HTTP     *)
(* request answered.                                                       *)
(***************************************************************************)
MaxPosts == 2

MaxConns == 2

\* "Quote of the day:\n"
QotdPrefix ==
    <<81, 117, 111, 116, 101, 32, 111, 102, 32, 116, 104, 101, 32, 100, 97, 121, 58, 10>>

\* White space of str::trim, of one octet
Whitespace == {9, 10, 11, 12, 13, 32}

RECURSIVE trim_start(_)
trim_start(str) ==
    IF str # <<>> /\ str[1] \in Whitespace THEN trim_start(Tail(str)) ELSE str

RECURSIVE trim_end(_)
trim_end(str) ==
    IF str # <<>> /\ str[Len(str)] \in Whitespace
    THEN trim_end(SubSeq(str, 1, Len(str) - 1))
    ELSE str

\* str::trim
trim(str) == trim_end(trim_start(str))

\* fs::read(path).unwrap_or_default(), read_to_string(path).unwrap_or_default()
read_or_default(file) == IF file.exists THEN file.bytes ELSE <<>>

\* respond: the secret of the query is the expected one
secret_accepted(expected_secret, secret) ==
    /\ expected_secret # <<>>
    /\ secret = [some |-> TRUE, value |-> trim(expected_secret)]

\* respond: full_qotd
full_qotd(body) ==
    LET prefixed == QotdPrefix \o body
    IN  IF prefixed[Len(prefixed)] # 10 THEN Append(prefixed, 10) ELSE prefixed

\* query_params.get("secret") of the requests: no such parameter, an empty
\* one, "s", "x"
QuerySecrets ==
    {[some |-> FALSE], [some |-> TRUE, value |-> <<>>], [some |-> TRUE, value |-> <<115>>],
     [some |-> TRUE, value |-> <<120>>]}

\* The bodies of the requests: none, "H", "H\n"
Bodies == {<<>>, <<72>>, <<72, 10>>}

\* data/qotd/secret.txt: missing, empty, "\n", "s\n"
SecretFiles == {NoFile, FileOf(<<>>), FileOf(<<10>>), FileOf(<<115, 10>>)}

HttpInit ==
    \E secret_file \in SecretFiles, message_file \in {NoFile, FileOf(full_qotd(<<81>>))} :
       qotd = [message |-> read_or_default(message_file), message_file |-> message_file,
               secret_file |-> secret_file, writing |-> <<>>, conns |-> <<>>,
               posted |-> [some |-> FALSE], posts |-> 0, failed |-> FALSE,
               last |-> [kind |-> "none"]]

\* What is known of a POST when it is answered
Posted(secret, body, status, before, after) ==
    [kind |-> "post", secret |-> secret, body |-> body, status |-> status,
     expected_secret |-> read_or_default(before.secret_file),
     message_before |-> before.message, message_after |-> after.message,
     file_before |-> before.message_file, file_after |-> after.message_file]

\* respond, ("/qotd", "POST"), as far as fs::write: 403, or the file is
\* written, or writing it fails and the connection gets no HTTP response
HttpPost ==
    /\ qotd.posts < MaxPosts
    /\ \E secret \in QuerySecrets, body \in Bodies :
          IF ~secret_accepted(read_or_default(qotd.secret_file), secret)
          THEN qotd' = [qotd EXCEPT !.posts = @ + 1,
                                    !.last = Posted(secret, body, 403, qotd, qotd)]
          ELSE \/ qotd' = [qotd EXCEPT !.posts = @ + 1,
                                       !.message_file = FileOf(full_qotd(body)),
                                       !.writing = Append(@, [secret |-> secret,
                                                              body |-> body])]
               \/ \E left \in {qotd.message_file, FileOf(<<>>)} :
                     qotd' = [qotd EXCEPT !.posts = @ + 1,
                                          !.message_file = left,
                                          !.failed = TRUE,
                                          !.last = Posted(secret, body, 0, qotd,
                                                          [qotd EXCEPT !.message_file = left])]
    /\ UNCHANGED <<sshVars, codec, record, loader, term, layout, drawn, udp, process, gemtext, media, sequence, framed, mpint, banner, wire>>

\* respond, ("/qotd", "POST"), after fs::write: the message is replaced
\* and the reply is 200
HttpStore ==
    /\ \E i \in 1..Len(qotd.writing) :
          \E after \in {[qotd EXCEPT !.message = full_qotd(qotd.writing[i].body)]} :
             qotd' = [after EXCEPT !.writing = SubSeq(@, 1, i - 1) \o SubSeq(@, i + 1, Len(@)),
                                   !.posted = [some |-> TRUE, message |-> after.message],
                                   !.last = Posted(qotd.writing[i].secret, qotd.writing[i].body,
                                                   200, qotd, after)]
    /\ UNCHANGED <<sshVars, codec, record, loader, term, layout, drawn, udp, process, gemtext, media, sequence, framed, mpint, banner, wire>>

\* respond, ("/qotd", "GET")
HttpGet ==
    /\ qotd.last.kind # "get"
    /\ qotd' = [qotd EXCEPT !.last = [kind |-> "get", status |-> 200,
                                      reply |-> qotd.message]]
    /\ UNCHANGED <<sshVars, codec, record, loader, term, layout, drawn, udp, process, gemtext, media, sequence, framed, mpint, banner, wire>>

\* Qotd::serve: tcp_listener.accept()
TcpAccept ==
    /\ Len(qotd.conns) < MaxConns
    /\ qotd' = [qotd EXCEPT !.conns = Append(@, [after |-> qotd.posted,
                                                 received |-> [some |-> FALSE]])]
    /\ UNCHANGED <<sshVars, codec, record, loader, term, layout, drawn, udp, process, gemtext, media, sequence, framed, mpint, banner, wire>>

\* Qotd::serve, the connection's task: the message is read under the lock,
\* written, and the stream shut down
TcpRespond ==
    /\ \E i \in 1..Len(qotd.conns) :
          /\ ~qotd.conns[i].received.some
          /\ qotd' = [qotd EXCEPT !.conns[i].received =
                                     [some |-> TRUE, response |-> qotd.message]]
    /\ UNCHANGED <<sshVars, codec, record, loader, term, layout, drawn, udp, process, gemtext, media, sequence, framed, mpint, banner, wire>>

HttpNext == HttpPost \/ HttpStore \/ HttpGet \/ TcpAccept \/ TcpRespond

HttpSpecInit == SshIdle /\ codec = Idle /\ record = Idle /\ loader = Idle /\ term = Idle /\ layout = Idle /\ drawn = Idle /\ udp = Idle /\ HttpInit /\ process = Idle /\ gemtext = Idle /\ media = Idle /\ sequence = Idle /\ framed = Idle /\ mpint = Idle /\ banner = Idle /\ wire = Idle

HttpSpec == HttpSpecInit /\ [][HttpNext]_vars

(***************************************************************************)
(* The listeners of the process (main.rs, main, and each protocol's        *)
(* serve).  main joins the seven serve futures in its own task, so a       *)
(* panic in one of them is a panic of main, which ends the process.        *)
(* process is whether the process is alive, the sockets whose address      *)
(* cannot be bound, how far each serve is, the sockets bound, those whose  *)
(* bind failed, and those that have accepted a connection or a datagram.   *)
(***************************************************************************)
Protocols == {"gemini", "ssh", "telnet", "gopher", "finger", "qotd", "http"}

Sockets == (Protocols \ {"qotd"}) \cup {"qotd_tcp", "qotd_udp"}

\* The serve functions that unwrap the result of TcpListener::bind
unwraps_bind(protocol) == protocol \in {"ssh", "telnet", "gopher", "finger"}

\* The socket a serve binds next: Qotd::serve binds TCP, then UDP
binding(protocol, serve) ==
    IF protocol # "qotd" THEN protocol
    ELSE IF serve = "start" THEN "qotd_tcp" ELSE "qotd_udp"

\* Where serve is after the bind succeeded
bound_serve(protocol, serve) ==
    IF protocol = "qotd" /\ serve = "start" THEN "udp" ELSE "serving"

\* Where serve is after the bind failed
failed_serve(protocol) ==
    IF unwraps_bind(protocol) THEN "panicked" ELSE "returned"

ListenerInit ==
    \E busy \in {{}} \cup {{socket} : socket \in Sockets} :
       process = [alive |-> TRUE, busy |-> busy,
                  serve |-> [protocol \in Protocols |-> "start"],
                  bound |-> {}, failed |-> {}, accepted |-> {}]

\* serve: TcpListener::bind, UdpSocket::bind
ListenerBind ==
    /\ process.alive
    /\ \E protocol \in Protocols :
          /\ process.serve[protocol] \in {"start", "udp"}
          /\ LET socket == binding(protocol, process.serve[protocol])
             IN  IF socket \notin process.busy
                 THEN process' =
                         [process EXCEPT !.bound = @ \cup {socket},
                                         !.serve[protocol] = bound_serve(protocol, @)]
                 ELSE process' =
                         [process EXCEPT !.failed = @ \cup {socket},
                                         !.serve[protocol] = failed_serve(protocol),
                                         !.alive = ~unwraps_bind(protocol)]
    /\ UNCHANGED <<sshVars, codec, record, loader, term, layout, drawn, udp, qotd, gemtext, media, sequence, framed, mpint, banner, wire>>

\* serve: listener.accept(), recv_from; the TCP accept loop of Qotd::serve
\* is a task of its own, spawned before the UDP socket is bound
ListenerAccept ==
    /\ process.alive
    /\ \E socket \in process.bound \ process.accepted :
          /\ socket = "qotd_udp" => process.serve["qotd"] = "serving"
          /\ process' = [process EXCEPT !.accepted = @ \cup {socket}]
    /\ UNCHANGED <<sshVars, codec, record, loader, term, layout, drawn, udp, qotd, gemtext, media, sequence, framed, mpint, banner, wire>>

ListenerNext == ListenerBind \/ ListenerAccept

ListenerSpecInit == SshIdle /\ codec = Idle /\ record = Idle /\ loader = Idle /\ term = Idle /\ layout = Idle /\ drawn = Idle /\ udp = Idle /\ qotd = Idle /\ ListenerInit /\ gemtext = Idle /\ media = Idle /\ sequence = Idle /\ framed = Idle /\ mpint = Idle /\ banner = Idle /\ wire = Idle

ListenerSpec == ListenerSpecInit /\ [][ListenerNext]_vars

(***************************************************************************)
(* The Gemini text of a post (protocols/gemini.rs, Gemini::generate).      *)
(* Strings are their octets.  gemtext is the post's parts, how far the     *)
(* loop over them is, the content so far, the links queued and whether     *)
(* the last part was a line break.                                         *)
(***************************************************************************)
MaxParts == 3

\* "=> "
G_link == <<61, 62, 32>>

\* "=> /blog ⬅ Back"
G_back == <<61, 62, 32, 47, 98, 108, 111, 103, 32, 226, 172, 133, 32, 66, 97, 99, 107>>

\* "https://gemini.circumlunar.space/", "https://gmi.skyjake.fi/"
G_circumlunar == <<104, 116, 116, 112, 115, 58, 47, 47, 103, 101, 109, 105, 110, 105, 46, 99, 105, 114, 99, 117, 109, 108, 117, 110, 97, 114, 46, 115, 112, 97, 99, 101, 47>>

G_skyjake == <<104, 116, 116, 112, 115, 58, 47, 47, 103, 109, 105, 46, 115, 107, 121, 106, 97, 107, 101, 46, 102, 105, 47>>

\* "gemini://"
G_gemini == <<103, 101, 109, 105, 110, 105, 58, 47, 47>>

\* "media"
G_media == <<109, 101, 100, 105, 97>>

\* The title and the date of the posts: "T", "2024-01-02"
PostTitle == <<84>>

PostDate == <<50, 48, 50, 52, 45, 48, 49, 45, 48, 50>>

starts_with(str, prefix) ==
    Len(str) >= Len(prefix) /\ SubSeq(str, 1, Len(prefix)) = prefix

\* The href of a queued link: two hosts are reached over gemini
queued_href(href) ==
    IF starts_with(href, G_circumlunar) THEN G_gemini \o Drop(href, 8)
    ELSE IF starts_with(href, G_skyjake) THEN G_gemini \o Drop(href, 12)
    ELSE href

\* A queued link written without its line feed.
link_line_open(queued) == G_link \o queued.href \o <<32>> \o queued.text

\* format!("=> {href} {text}\n")
link_line(queued) == G_link \o queued.href \o <<32>> \o queued.text \o <<10>>

\* for Link { href, text } in queued_links.drain(..)
RECURSIVE link_lines(_)
link_lines(queued_links) ==
    IF queued_links = <<>> THEN <<>>
    ELSE link_line(queued_links[1]) \o link_lines(Tail(queued_links))

\* str::lines: the lines without their line feeds, no empty last line
RECURSIVE lines_from(_, _)
lines_from(str, line) ==
    IF str = <<>> THEN (IF line = <<>> THEN <<>> ELSE <<line>>)
    ELSE IF str[1] = 10 THEN <<line>> \o lines_from(Tail(str), <<>>)
    ELSE lines_from(Tail(str), Append(line, str[1]))

lines(str) == lines_from(str, <<>>)

\* for line in text.lines() { format!("> {line}\n") }
RECURSIVE quoted(_)
quoted(text_lines) ==
    IF text_lines = <<>> THEN <<>>
    ELSE <<62, 32>> \o text_lines[1] \o <<10>> \o quoted(Tail(text_lines))

\* PostPart::Image: the href is the path below media, or the URL
image_href(src) ==
    IF src.local THEN Drop(src.path, Len(G_media)) ELSE src.path

image_line(part) ==
    IF part.alt.some
    THEN G_link \o image_href(part.src) \o <<32>> \o part.alt.text \o <<10>>
    ELSE G_link \o image_href(part.src) \o <<10>>

heading_line(part) ==
    IF part.level = 1 THEN <<35, 32>> \o part.t \o <<10>>
    ELSE IF part.level = 2 THEN <<35, 35, 32>> \o part.t \o <<10>>
    ELSE IF part.level = 3 THEN <<35, 35, 35, 32>> \o part.t \o <<10>>
    ELSE <<>>

\* PostPart::Link: the link is queued, and its text is written unless line
\* breaks surround it, when the last character of the content goes
link_queued(gen, parts, i) ==
    LET before_is_line_break == i = 1 \/ parts[i - 1].kind = "LineBreak"
        after_is_line_break == i = Len(parts) \/ parts[i + 1].kind = "LineBreak"
    IN  [gen EXCEPT !.queued_links = Append(@, [text |-> parts[i].t,
                                                href |-> queued_href(parts[i].href)]),
                    !.content = IF before_is_line_break /\ after_is_line_break
                                THEN Take(@, Len(@) - 1)
                                ELSE @ \o parts[i].t]

\* PostPart::LineBreak
line_broken(gen) ==
    [gen EXCEPT !.content = @ \o (IF gen.last_tag_was_line_break THEN <<>> ELSE <<10>>)
                              \o link_lines(gen.queued_links) \o <<10>>,
                !.queued_links = <<>>,
                !.last_tag_was_line_break = TRUE]

\* One pass of the loop over the parts of the post
generated(gen, parts, i) ==
    LET part == parts[i]
        pushed_str(str) == [gen EXCEPT !.content = @ \o str,
                                       !.last_tag_was_line_break = FALSE]
    IN  CASE part.kind = "Text" -> pushed_str(part.t)
          [] part.kind = "CodeBlock" -> pushed_str(<<96, 96, 96, 10>> \o part.t
                                                   \o <<10, 96, 96, 96, 10>>)
          [] part.kind = "InlineCode" -> pushed_str(<<96>> \o part.t \o <<96>>)
          [] part.kind = "Image" -> pushed_str(image_line(part))
          [] part.kind = "Link" ->
                [link_queued(gen, parts, i) EXCEPT !.last_tag_was_line_break = FALSE]
          [] part.kind = "LineBreak" -> line_broken(gen)
          [] part.kind = "Heading" -> pushed_str(heading_line(part))
          [] part.kind = "Italic" -> pushed_str(<<42>> \o part.t \o <<42>>)
          [] part.kind = "Bold" -> pushed_str(<<42, 42>> \o part.t \o <<42, 42>>)
          [] part.kind = "Quote" -> pushed_str(quoted(lines(part.t)))

\* After the loop: the queued links and the link back
finished(gen) ==
    [gen EXCEPT !.content = @ \o link_lines(gen.queued_links) \o G_back \o <<10>>,
                !.queued_links = <<>>]

\* The parts the posts are made of: "hi", links to "h" and to
\* "https://gmi.skyjake.fi/z", images, headings, a quote of two lines
PostParts ==
    {[kind |-> "Text", t |-> <<104, 105>>],
     [kind |-> "Link", t |-> <<120>>, href |-> <<104>>],
     [kind |-> "Link", t |-> <<121>>, href |-> G_skyjake \o <<122>>],
     [kind |-> "LineBreak"],
     [kind |-> "Image", src |-> [local |-> FALSE, path |-> <<117>>],
      alt |-> [some |-> TRUE, text |-> <<112>>]],
     [kind |-> "Image", src |-> [local |-> TRUE, path |-> G_media \o <<47, 105>>],
      alt |-> [some |-> FALSE]],
     [kind |-> "Heading", level |-> 2, t |-> <<116>>],
     [kind |-> "Heading", level |-> 4, t |-> <<116>>],
     [kind |-> "Quote", t |-> <<113, 10, 114>>],
     [kind |-> "CodeBlock", t |-> <<99>>],
     [kind |-> "Bold", t |-> <<98>>]}

PostContents == UNION {[1..n -> PostParts] : n \in 0..MaxParts}

\* content after "# {title}\n" and "{date}\n\n"
GemInit ==
    \E parts \in PostContents :
       gemtext = [parts |-> parts, i |-> 1,
                  content |-> <<35, 32>> \o PostTitle \o <<10>> \o PostDate \o <<10, 10>>,
                  queued_links |-> <<>>, last_tag_was_line_break |-> FALSE,
                  done |-> FALSE]

GemPart ==
    /\ ~gemtext.done /\ gemtext.i <= Len(gemtext.parts)
    /\ \E gen \in {generated(gemtext, gemtext.parts, gemtext.i)} :
          gemtext' = [gen EXCEPT !.i = @ + 1]
    /\ UNCHANGED <<sshVars, codec, record, loader, term, layout, drawn, udp, qotd, process, media, sequence, framed, mpint, banner, wire>>

GemFinish ==
    /\ ~gemtext.done /\ gemtext.i > Len(gemtext.parts)
    /\ gemtext' = [finished(gemtext) EXCEPT !.done = TRUE]
    /\ UNCHANGED <<sshVars, codec, record, loader, term, layout, drawn, udp, qotd, process, media, sequence, framed, mpint, banner, wire>>

GemNext == GemPart \/ GemFinish

GemSpecInit == SshIdle /\ codec = Idle /\ record = Idle /\ loader = Idle /\ term = Idle /\ layout = Idle /\ drawn = Idle /\ udp = Idle /\ qotd = Idle /\ process = Idle /\ GemInit /\ media = Idle /\ sequence = Idle /\ framed = Idle /\ mpint = Idle /\ banner = Idle /\ wire = Idle

GemSpec == GemSpecInit /\ [][GemNext]_vars

(***************************************************************************)
(* The requests of Gemini and Gopher (protocols/gemini.rs and              *)
(* protocols/gopher.rs, respond).  A path is its segments between          *)
(* slashes, a place in the file system the names from the root down to     *)
(* it.  media is the file system and the request of one connection with    *)
(* its response and the place it opened: a connection is answered once     *)
(* and shut down.                                                          *)
(***************************************************************************)
MaxSegments == 3

\* "51 Not found\r\n"
R_not_found == <<53, 49, 32, 78, 111, 116, 32, 102, 111, 117, 110, 100, 13, 10>>

\* "inyaa~ >_<\tfake\t(NULL)\t0\r\n"
R_nyaa == <<105, 110, 121, 97, 97, 126, 32, 62, 95, 60, 9, 102, 97, 107, 101, 9, 40, 78, 85, 76, 76, 41, 9, 48, 13, 10>>

\* "iNot found\tfake\t(NULL)\t0\r\n"
R_item_not_found == <<105, 78, 111, 116, 32, 102, 111, 117, 110, 100, 9, 102, 97, 107, 101, 9, 40, 78, 85, 76, 76, 41, 9, 48, 13, 10>>

\* "59 Couldn't receive request\r\n", "59 Request is too large\r\n",
\* "59 Request is not UTF-8\r\n", "59 Request is not a valid URL\r\n"
R_refused ==
    [read_failed |-> <<53, 57, 32, 67, 111, 117, 108, 100, 110, 39, 116, 32, 114, 101, 99, 101, 105, 118, 101, 32, 114, 101, 113, 117, 101, 115, 116, 13, 10>>,
     too_large |-> <<53, 57, 32, 82, 101, 113, 117, 101, 115, 116, 32, 105, 115, 32, 116, 111, 111, 32, 108, 97, 114, 103, 101, 13, 10>>,
     not_utf8 |-> <<53, 57, 32, 82, 101, 113, 117, 101, 115, 116, 32, 105, 115, 32, 110, 111, 116, 32, 85, 84, 70, 45, 56, 13, 10>>,
     not_url |-> <<53, 57, 32, 82, 101, 113, 117, 101, 115, 116, 32, 105, 115, 32, 110, 111, 116, 32, 97, 32, 118, 97, 108, 105, 100, 32, 85, 82, 76, 13, 10>>,
     scheme |-> <<53, 51, 32, 82, 101, 113, 117, 101, 115, 116, 32, 105, 115, 32, 110, 111, 116, 32, 97, 32, 71, 101, 109, 105, 110, 105, 32, 85, 82, 76, 13, 10>>,
     host |-> <<53, 51, 32, 72, 111, 115, 116, 32, 100, 111, 101, 115, 110, 39, 116, 32, 109, 97, 116, 99, 104, 13, 10>>,
     port |-> <<53, 51, 32, 80, 111, 114, 116, 32, 100, 111, 101, 115, 110, 39, 116, 32, 109, 97, 116, 99, 104, 13, 10>>]

\* "20 text/gemini\r\n"
R_gemtext == <<50, 48, 32, 116, 101, 120, 116, 47, 103, 101, 109, 105, 110, 105, 13, 10>>

\* "20 ", "image/png", "application/octet-stream"
R_success == <<50, 48, 32>>

M_png == <<105, 109, 97, 103, 101, 47, 112, 110, 103>>

M_octet_stream == <<97, 112, 112, 108, 105, 99, 97, 116, 105, 111, 110, 47, 111, 99, 116, 101, 116, 45, 115, 116, 114, 101, 97, 109>>

\* mime_guess::from_path(&path).first_or_octet_stream()
mime_guess(segments) ==
    IF segments[Len(segments)] = "b.png" THEN M_png ELSE M_octet_stream

\* Gemini::generate, the text of one post
RECURSIVE post_parts_gmi(_, _, _)
post_parts_gmi(gen, parts, i) ==
    IF i > Len(parts) THEN finished(gen).content
    ELSE post_parts_gmi(generated(gen, parts, i), parts, i + 1)

post_gmi(parts) ==
    post_parts_gmi([content |-> <<35, 32>> \o PostTitle \o <<10>> \o PostDate \o <<10, 10>>,
                    queued_links |-> <<>>, last_tag_was_line_break |-> FALSE], parts, 1)

\* The texts of the posts, by slug
posts_gmi ==
    [slug \in {"short"} |-> post_gmi(<<[kind |-> "Text", t |-> <<104, 105>>],
                                       [kind |-> "LineBreak"]>>)]

\* Path::new("media").join(path): a path that starts at the root replaces
\* the one it is joined to
media_joined(slug) ==
    IF slug[1] = "" THEN [absolute |-> TRUE, segments |-> Tail(slug)]
    ELSE [absolute |-> FALSE, segments |-> <<"media">> \o slug]

\* Path::components: empty segments and "." after the first are left out
RECURSIVE components_from(_, _, _)
components_from(segments, i, relative) ==
    IF i > Len(segments) THEN <<>>
    ELSE LET rest == components_from(segments, i + 1, relative)
         IN  IF segments[i] = "" THEN rest
             ELSE IF segments[i] = "."
             THEN (IF i = 1 /\ relative THEN <<[kind |-> "CurDir"]>> \o rest ELSE rest)
             ELSE IF segments[i] = ".." THEN <<[kind |-> "ParentDir"]>> \o rest
             ELSE <<[kind |-> "Normal", name |-> segments[i]]>> \o rest

components(path) ==
    IF path.absolute THEN <<[kind |-> "RootDir"]>> \o components_from(path.segments, 1, FALSE)
    ELSE components_from(path.segments, 1, TRUE)

\* gemini.rs: !path.components().all(Normal)
gemini_refused(path) ==
    \E i \in 1..Len(components(path)) : components(path)[i].kind # "Normal"

\* gopher.rs: path.components().any(Normal)
gopher_refused(path) ==
    \E i \in 1..Len(components(path)) : components(path)[i].kind = "Normal"

\* The place the system opens for the path, the process running in /srv
RECURSIVE walked(_, _)
walked(place, remaining) ==
    IF remaining = <<>> THEN place
    ELSE IF remaining[1].kind = "Normal"
    THEN walked(Append(place, remaining[1].name), Tail(remaining))
    ELSE IF remaining[1].kind = "ParentDir"
    THEN walked(IF place = <<>> THEN place ELSE Take(place, Len(place) - 1), Tail(remaining))
    ELSE walked(place, Tail(remaining))

opened_place(path) ==
    walked(IF path.absolute THEN <<>> ELSE <<"srv">>, components(path))

\* File::open and read_to_end: the octets of a file, none for a directory
file_read(fs, place) == IF place \in fs.files THEN <<137, 80>> ELSE <<>>

\* What respond gives: the response, the place it opened if any, and
\* whether it served what it opened
Responded(response) == [response |-> response, opened |-> [some |-> FALSE], served |-> FALSE]

\* gemini.rs, respond: the path has another slash
gemini_media(fs, slug) ==
    LET path == media_joined(slug)
    IN  IF gemini_refused(path) THEN Responded(R_nyaa)
        ELSE IF opened_place(path) \notin fs.dirs \cup fs.files
        THEN [Responded(R_item_not_found) EXCEPT
                 !.opened = [some |-> TRUE, place |-> opened_place(path)]]
        ELSE [response |-> R_success \o mime_guess(path.segments) \o <<13, 10>>
                           \o file_read(fs, opened_place(path)),
              opened |-> [some |-> TRUE, place |-> opened_place(path)],
              served |-> TRUE]

\* gemini.rs, respond, after the URL is parsed and checked
gemini_respond(fs, slug) ==
    IF slug = <<"">> THEN Responded(R_gemtext \o <<35, 10>>)
    ELSE IF slug = <<"blog">> \/ slug = <<"projects">>
    THEN Responded(R_gemtext \o <<35, 32, 10>>)
    ELSE IF Len(slug) > 1 THEN gemini_media(fs, slug)
    ELSE IF slug[1] \in DOMAIN posts_gmi
    THEN Responded(R_gemtext \o posts_gmi[slug[1]] \o <<13, 10>>)
    ELSE Responded(R_not_found)

\* gopher.rs, respond: the path has another slash
gopher_media(fs, slug) ==
    LET path == media_joined(slug)
    IN  IF gopher_refused(path) THEN Responded(R_nyaa)
        ELSE IF opened_place(path) \notin fs.dirs \cup fs.files
        THEN [Responded(R_item_not_found) EXCEPT
                 !.opened = [some |-> TRUE, place |-> opened_place(path)]]
        ELSE [response |-> file_read(fs, opened_place(path)) \o <<13, 10>>,
              opened |-> [some |-> TRUE, place |-> opened_place(path)],
              served |-> TRUE]

\* gopher.rs, respond
gopher_respond(fs, slug) ==
    IF slug = <<"">> \/ slug = <<"blog">> \/ slug = <<"projects">>
    THEN Responded(<<105, 13, 10>>)
    ELSE IF Len(slug) > 1 THEN gopher_media(fs, slug)
    ELSE IF slug[1] \in DOMAIN posts_gmi THEN Responded(<<105, 13, 10>>)
    ELSE Responded(R_item_not_found)

\* The file systems: media/a/b.png below /srv, or no media directory
FileSystems ==
    {[dirs |-> {<<>>, <<"etc">>, <<"srv">>, <<"srv", "media">>, <<"srv", "media", "a">>},
      files |-> {<<"srv", "media", "a", "b.png">>}],
     [dirs |-> {<<>>, <<"etc">>, <<"srv">>}, files |-> {}]}

\* The paths asked for, after their first slash: the name of a post or of
\* none, or the segments of a path with another slash
PostSlugs == {"", "blog", "projects", "short", "nope"}

Segments == {"", ".", "..", "a", "b.png"}

Slugs ==
    {<<slug>> : slug \in PostSlugs} \cup UNION {[1..n -> Segments] : n \in 2..MaxSegments}

MediaInit ==
    \E fs \in FileSystems : media = [fs |-> fs, last |-> [protocol |-> "none"]]

\* gemini.rs, respond: a request that is refused before its path is looked at
GeminiRefuse ==
    /\ media.last.protocol = "none"
    /\ \E refused \in DOMAIN R_refused :
          media' = [media EXCEPT !.last = [protocol |-> "gemini", checked |-> FALSE,
                                           responded |-> Responded(R_refused[refused])]]
    /\ UNCHANGED <<sshVars, codec, record, loader, term, layout, drawn, udp, qotd, process, gemtext, sequence, framed, mpint, banner, wire>>

\* gemini.rs, respond: a request for a path of this host
GeminiRespond ==
    /\ media.last.protocol = "none"
    /\ \E slug \in Slugs :
          media' = [media EXCEPT !.last = [protocol |-> "gemini", checked |-> TRUE,
                                           slug |-> slug,
                                           responded |-> gemini_respond(media.fs, slug)]]
    /\ UNCHANGED <<sshVars, codec, record, loader, term, layout, drawn, udp, qotd, process, gemtext, sequence, framed, mpint, banner, wire>>

\* gopher.rs, respond
GopherRespond ==
    /\ media.last.protocol = "none"
    /\ \E slug \in Slugs :
          media' = [media EXCEPT !.last = [protocol |-> "gopher", checked |-> TRUE,
                                           slug |-> slug,
                                           responded |-> gopher_respond(media.fs, slug)]]
    /\ UNCHANGED <<sshVars, codec, record, loader, term, layout, drawn, udp, qotd, process, gemtext, sequence, framed, mpint, banner, wire>>

MediaNext == GeminiRefuse \/ GeminiRespond \/ GopherRespond

MediaSpecInit == SshIdle /\ codec = Idle /\ record = Idle /\ loader = Idle /\ term = Idle /\ layout = Idle /\ drawn = Idle /\ udp = Idle /\ qotd = Idle /\ process = Idle /\ gemtext = Idle /\ MediaInit /\ sequence = Idle /\ framed = Idle /\ mpint = Idle /\ banner = Idle /\ wire = Idle

MediaSpec == MediaSpecInit /\ [][MediaNext]_vars

(***************************************************************************)
(* The server's sequence number on its own (ssh.rs, fn connection and      *)
(* EncryptedConnection::write_packet).  sequence is the local of fn        *)
(* connection, the connection once the keys are in use, the number of      *)
(* packets written so far, and the number and the tag of the last one.     *)
(* A connection that has written n packets, n below 2^32, holds the        *)
(* sequence number n; the connections of the model have written none, or   *)
(* nearly 2^32.  The numbers are kept as two halves of 16 bits.            *)
(***************************************************************************)
\* A number as its upper and its lower 16 bits: hi * 2^16 + lo.  A u32 has
\* hi below 2^16.
Half == 256 * 256

wide_of(n) == [hi |-> n \div Half, lo |-> n % Half]

wide_succ(w) == IF w.lo + 1 < Half THEN [w EXCEPT !.lo = @ + 1] ELSE [hi |-> w.hi + 1, lo |-> 0]

\* The number modulo 2^32
wide_u32(w) == [hi |-> w.hi % Half, lo |-> w.lo]

\* u32::to_be_bytes
wide_be(w) == <<w.hi \div 256, w.hi % 256, w.lo \div 256, w.lo % 256>>

\* 2^32 - k
wide_below_u32(k) == [hi |-> Half - 1, lo |-> Half - k]

MaxWrites == 3

\* The packets short of 2^32 that a connection has written when the model
\* takes it up
MaxAhead == 2

\* `+= 1` on the u32: past the last value it wraps where overflow is not
\* checked and panics where it is.
sequence_number_wrapped(n) == {[panicked |-> FALSE, value |-> wide_u32(wide_succ(n))]}

sequence_number_advanced(n) ==
    IF wide_succ(n).hi < Half THEN {[panicked |-> FALSE, value |-> wide_succ(n)]}
    ELSE {[panicked |-> FALSE, value |-> wide_of(0)], [panicked |-> TRUE, value |-> n]}

NoWrite == [some |-> FALSE]

\* EncryptedConnection::new, the cipher and the key of the connection
SequenceConn(keys) == EncryptedConnection_new(keys, 0)

SequenceInit ==
    \E k \in KeySets :
       sequence \in
          {[pc |-> "KexInit", keys |-> k, sequence_number_server_to_client |-> wide_of(0),
            conn |-> NoConn, written |-> wide_of(0), encrypted |-> 0, last |-> NoWrite]}
          \cup {[pc |-> "Encrypted", keys |-> k,
                 sequence_number_server_to_client |-> wide_below_u32(n),
                 conn |-> SequenceConn(k), written |-> wide_below_u32(n), encrypted |-> 0,
                 last |-> NoWrite] : n \in 1..MaxAhead}

\* The server's KexInit is written
SequenceKexInit ==
    /\ sequence.pc = "KexInit"
    /\ sequence' = [sequence EXCEPT !.pc = "KexEcdhInit",
                                    !.sequence_number_server_to_client = wide_succ(@),
                                    !.written = wide_succ(@)]
    /\ UNCHANGED <<sshVars, codec, record, loader, term, layout, drawn, udp, qotd, process, gemtext, media, framed, mpint, banner, wire>>

\* KexEcdhReply and NewKeys are written
SequenceKexReply ==
    /\ sequence.pc = "KexEcdhInit"
    /\ sequence' = [sequence EXCEPT !.pc = "NewKeys",
                                    !.sequence_number_server_to_client = wide_succ(wide_succ(@)),
                                    !.written = wide_succ(wide_succ(@))]
    /\ UNCHANGED <<sshVars, codec, record, loader, term, layout, drawn, udp, qotd, process, gemtext, media, framed, mpint, banner, wire>>

\* The client's NewKeys is read: EncryptedConnection::new takes the number
SequenceNewKeys ==
    /\ sequence.pc = "NewKeys"
    /\ sequence' = [sequence EXCEPT !.pc = "Encrypted", !.conn = SequenceConn(sequence.keys)]
    /\ UNCHANGED <<sshVars, codec, record, loader, term, layout, drawn, udp, qotd, process, gemtext, media, framed, mpint, banner, wire>>

\* EncryptedConnection::write_packet
SequenceWrite ==
    /\ sequence.pc = "Encrypted"
    /\ sequence.encrypted < MaxWrites
    /\ \E payload \in {<<>>, <<21>>, Key(7, 11)} :
          \E w \in {EncryptedConnection_tagged(
                        sequence.conn, payload,
                        wide_be(sequence.sequence_number_server_to_client))} :
             \E next \in sequence_number_advanced(sequence.sequence_number_server_to_client) :
                sequence' = [sequence EXCEPT
                                !.pc = IF next.panicked THEN "Panicked" ELSE @,
                                !.conn = w.conn,
                                !.sequence_number_server_to_client = next.value,
                                !.written = wide_succ(@),
                                !.encrypted = @ + 1,
                                !.last = [some |-> TRUE,
                                          seq |-> sequence.sequence_number_server_to_client,
                                          mac |-> w.mac,
                                          frame |-> write_payload(payload, AesKeySize),
                                          before |-> sequence.written]]
    /\ UNCHANGED <<sshVars, codec, record, loader, term, layout, drawn, udp, qotd, process, gemtext, media, framed, mpint, banner, wire>>

SequenceNext == SequenceKexInit \/ SequenceKexReply \/ SequenceNewKeys \/ SequenceWrite

SequenceSpecInit == SshIdle /\ codec = Idle /\ record = Idle /\ loader = Idle /\ term = Idle /\ layout = Idle /\ drawn = Idle /\ udp = Idle /\ qotd = Idle /\ process = Idle /\ gemtext = Idle /\ media = Idle /\ SequenceInit /\ framed = Idle /\ mpint = Idle /\ banner = Idle /\ wire = Idle

SequenceSpec == SequenceSpecInit /\ [][SequenceNext]_vars

(***************************************************************************)
(* write_payload on its own (protocol.rs): a payload and a cipher block    *)
(* size are given, and the packet is built.                                *)
(***************************************************************************)
\* The longest payload
MaxPayload == 40

\* None, and the block sizes of ciphers
BlockSizes == {NoBlockSize, 1, 8, 16, 32, 64, 128}

FramedInit ==
    \E n \in 0..MaxPayload, block \in BlockSizes :
       framed = [pc |-> "given", payload |-> Key(3, n), cipher_block_key_size |-> block,
                 data |-> <<>>]

\* write_payload
FramedWrite ==
    /\ framed.pc = "given"
    /\ framed' = [framed EXCEPT
                     !.pc = "written",
                     !.data = write_payload(framed.payload, framed.cipher_block_key_size)]
    /\ UNCHANGED <<sshVars, codec, record, loader, term, layout, drawn, udp, qotd, process, gemtext, media, sequence, mpint, banner, wire>>

FramedNext == FramedWrite

FramedSpecInit == SshIdle /\ codec = Idle /\ record = Idle /\ loader = Idle /\ term = Idle /\ layout = Idle /\ drawn = Idle /\ udp = Idle /\ qotd = Idle /\ process = Idle /\ gemtext = Idle /\ media = Idle /\ sequence = Idle /\ FramedInit /\ mpint = Idle /\ banner = Idle /\ wire = Idle

FramedSpec == FramedSpecInit /\ [][FramedNext]_vars

(***************************************************************************)
(* write_mpint on its own (protocol.rs): a byte string is given and        *)
(* written.                                                                *)
(***************************************************************************)
\* The longest byte string
MaxMagnitude == 3

MagnitudeOctets == {0, 1, 127, 128, 255}

Magnitudes == UNION {[1..n -> MagnitudeOctets] : n \in 0..MaxMagnitude}

MpintInit ==
    \E magnitude \in Magnitudes :
       mpint = [pc |-> "given", s |-> magnitude, written |-> [panicked |-> FALSE, buf |-> <<>>]]

\* write_mpint(&mut data, s) on an empty data
MpintWrite ==
    /\ mpint.pc = "given"
    /\ mpint' = [mpint EXCEPT !.pc = "written", !.written = write_mpint(mpint.s)]
    /\ UNCHANGED <<sshVars, codec, record, loader, term, layout, drawn, udp, qotd, process, gemtext, media, sequence, framed, banner, wire>>

MpintNext == MpintWrite

MpintSpecInit == SshIdle /\ codec = Idle /\ record = Idle /\ loader = Idle /\ term = Idle /\ layout = Idle /\ drawn = Idle /\ udp = Idle /\ qotd = Idle /\ process = Idle /\ gemtext = Idle /\ media = Idle /\ sequence = Idle /\ framed = Idle /\ MpintInit /\ banner = Idle /\ wire = Idle

MpintSpec == MpintSpecInit /\ [][MpintNext]_vars

(***************************************************************************)
(* The client's identification line on its own (ssh.rs, fn connection).    *)
(* The client sends its line, CR LF and its KexInit packet; the first      *)
(* read of the socket, read.next() of the BytesCodec, returns the octets   *)
(* that have arrived, some first part of what the client sends, and the    *)
(* packets are read from what follows it.                                  *)
(***************************************************************************)
\* What the client sends
ClientStream ==
    S_client_banner \o CRLF
    \o write_payload(client_encode(ClientKexInitMatching), NoBlockSize)

\* client_id = String::from_utf8(bytes[..bytes.len() - 2].to_vec())?
read_client_id(bytes) ==
    IF Len(bytes) < 2 THEN [result |-> "panic", client_id |-> <<>>]
    ELSE IF ~is_utf8(Take(bytes, Len(bytes) - 2)) THEN [result |-> "err", client_id |-> <<>>]
    ELSE [result |-> "ok", client_id |-> Take(bytes, Len(bytes) - 2)]

NoRead == [result |-> "none"]

BannerInit ==
    banner = [pc |-> "ReadClientId", stream |-> ClientStream, id |-> NoRead, first |-> NoRead]

\* read.next(): the octets that have arrived are taken off the socket
BannerReadClientId ==
    /\ banner.pc = "ReadClientId"
    /\ \E n \in 1..Len(banner.stream) :
          \E id \in {read_client_id(Take(banner.stream, n))} :
             banner' = [banner EXCEPT !.pc = IF id.result = "ok" THEN "AwaitKexInit"
                                             ELSE "Closed",
                                      !.stream = Drop(@, n),
                                      !.id = id]
    /\ UNCHANGED <<sshVars, codec, record, loader, term, layout, drawn, udp, qotd, process, gemtext, media, sequence, framed, mpint, wire>>

\* read.read_packet() for the client's KexInit
BannerAwaitKexInit ==
    /\ banner.pc = "AwaitKexInit"
    /\ \E r \in {read_packet_after(read_payload(ReadConnection_new, banner.stream))} :
          banner' = [banner EXCEPT !.pc = IF r.result = "ok" THEN "AwaitKexEcdhInit"
                                          ELSE "Closed",
                                   !.stream = Drop(@, r.consumed),
                                   !.first = [result |-> r.result, msg |-> r.msg]]
    /\ UNCHANGED <<sshVars, codec, record, loader, term, layout, drawn, udp, qotd, process, gemtext, media, sequence, framed, mpint, wire>>

BannerNext == BannerReadClientId \/ BannerAwaitKexInit

BannerSpecInit == SshIdle /\ codec = Idle /\ record = Idle /\ loader = Idle /\ term = Idle /\ layout = Idle /\ drawn = Idle /\ udp = Idle /\ qotd = Idle /\ process = Idle /\ gemtext = Idle /\ media = Idle /\ sequence = Idle /\ framed = Idle /\ mpint = Idle /\ BannerInit /\ wire = Idle

BannerSpec == BannerSpecInit /\ [][BannerNext]_vars

(***************************************************************************)
(* The packets of a client on the socket (connection.rs, read_payload, and *)
(* ssh.rs, fn connection).  The client writes packets one after another,   *)
(* in the clear up to its NewKeys and encrypted and tagged after it; the   *)
(* socket holds the octets not yet read.  The server reads packet by       *)
(* packet and installs the keys when it has read the NewKeys.  unread is   *)
(* the packets on the socket, one entry each, kept to state the            *)
(* properties.                                                             *)
(***************************************************************************)
\* The packets a client writes
MaxSent == 4

WirePayloads == {<<2>>, <<21>>, Key(7, 11), Key(9, 12)}

\* The payload of NewKeys
P_new_keys == <<21>>

RECURSIVE Flat(_)
Flat(packets) == IF packets = <<>> THEN <<>> ELSE packets[1].octets \o Flat(Tail(packets))

WireInit ==
    \E k \in KeySets :
       wire = [keys |-> k, writer |-> NoConn, reader |-> ReadConnection_new,
               stream |-> <<>>, unread |-> <<>>, sent |-> 0,
               last |-> [result |-> "none"]]

\* The client writes a packet: in the clear while it has not sent NewKeys
WireSendClear ==
    /\ ~wire.writer.some
    /\ wire.sent < MaxSent
    /\ \E payload \in WirePayloads :
          \E octets \in {write_payload(payload, NoBlockSize)} :
             wire' = [wire EXCEPT
                         !.writer = IF payload = P_new_keys
                                    THEN EncryptedConnection_new(wire.keys, 0)
                                    ELSE @,
                         !.stream = @ \o octets,
                         !.unread = Append(@, [payload |-> payload, octets |-> octets,
                                               tagged |-> FALSE]),
                         !.sent = @ + 1]
    /\ UNCHANGED <<sshVars, codec, record, loader, term, layout, drawn, udp, qotd, process, gemtext, media, sequence, framed, mpint, banner>>

\* The client writes a packet, encrypted and tagged
WireSendEncrypted ==
    /\ wire.writer.some
    /\ wire.sent < MaxSent
    /\ \E payload \in WirePayloads :
          \E w \in {EncryptedConnection_write_payload(wire.writer, payload)} :
             wire' = [wire EXCEPT
                         !.writer = w.conn,
                         !.stream = @ \o w.wire,
                         !.unread = Append(@, [payload |-> payload, octets |-> w.wire,
                                               tagged |-> TRUE]),
                         !.sent = @ + 1]
    /\ UNCHANGED <<sshVars, codec, record, loader, term, layout, drawn, udp, qotd, process, gemtext, media, sequence, framed, mpint, banner>>

\* read_payload; after the NewKeys the keys are installed
WireRead ==
    /\ wire.stream # <<>>
    /\ wire.last.result \in {"none", "ok"}
    /\ \E r \in {read_payload(wire.reader, wire.stream)} :
          wire' = [wire EXCEPT
                      !.reader = IF r.result = "ok" /\ r.payload = P_new_keys
                                    /\ ~wire.reader.cipher.some
                                 THEN install_read_keys(r.read, wire.keys)
                                 ELSE r.read,
                      !.stream = Drop(@, r.consumed),
                      !.unread = Tail(@),
                      !.last = [result |-> r.result, payload |-> r.payload,
                                consumed |-> r.consumed, packet |-> wire.unread[1]]]
    /\ UNCHANGED <<sshVars, codec, record, loader, term, layout, drawn, udp, qotd, process, gemtext, media, sequence, framed, mpint, banner>>

WireNext == WireSendClear \/ WireSendEncrypted \/ WireRead

WireSpecInit == SshIdle /\ codec = Idle /\ record = Idle /\ loader = Idle /\ term = Idle /\ layout = Idle /\ drawn = Idle /\ udp = Idle /\ qotd = Idle /\ process = Idle /\ gemtext = Idle /\ media = Idle /\ sequence = Idle /\ framed = Idle /\ mpint = Idle /\ banner = Idle /\ WireInit

WireSpec == WireSpecInit /\ [][WireNext]_vars

(***************************************************************************)
(* Properties of the session.                                              *)
(***************************************************************************)
Range(s) == {s[i] : i \in 1..Len(s)}

\* The i-th packet read during the handshake was a message of this type.
ReceivedMessage(i, type) ==
    /\ Len(received) >= i
    /\ received[i].result = "ok"
    /\ received[i].msg.type = type

\* The main loop has dispatched a message: the last packet it read was one.
Handled == packet.some /\ packet.result = "ok"

HandshakeOutputs == <<"Identification", "KexInit", "KexEcdhReply", "NewKeys">>

KeysInstalled == read.cipher.some \/ read.integrity_key.some \/ conn.some

\* C1: the outputs before encryption are the identification line, KexInit,
\* and, only after the client's KexInit and KexEcdhInit were received,
\* KexEcdhReply immediately followed by NewKeys; keys are installed for both
\* directions only after the client's NewKeys, and the main loop handles no
\* message before that.
C1_HandshakeOrder ==
    /\ Len(sent) <= Len(HandshakeOutputs)
    /\ \A i \in 1..Len(sent) :
          /\ sent[i].msg.type = HandshakeOutputs[i]
          /\ ~sent[i].encrypted
    /\ Len(sent) # 3
    /\ Len(sent) >= 3 => ReceivedMessage(1, "KexInit") /\ ReceivedMessage(2, "KexEcdhInit")
    /\ KeysInstalled =>
          /\ read.cipher.some /\ read.integrity_key.some /\ conn.some
          /\ Len(sent) = 4
          /\ Len(received) = 3
          /\ ReceivedMessage(3, "NewKeys")
    /\ (packet.some \/ replies # <<>>) => conn.some /\ read.cipher.some
    /\ \A i \in 1..Len(replies) : replies[i].encrypted

\* The main loop has answered a ServiceRequest under the installed keys.
C1_Witness ==
    /\ pc = "Encrypted"
    /\ Handled
    /\ packet.msg.type = "ServiceRequest"
    /\ Len(replies) = 1
    /\ replies[1].msg.type = "ServiceAccept"

\* The tag a client computes for a packet: HMAC-SHA-256 under the
\* client-to-server integrity key over its sequence number and the clear
\* packet.
ClientTag(index, frame) ==
    hmac_sha256(encryption_keys.integrity_key_client_to_server, u32_be(index) \o frame)

\* C2: once keys are installed, a packet is accepted and its message handled
\* only if its tag is HMAC-SHA-256 over the client-to-server sequence number
\* and the clear packet; a packet with a wrong tag closes the connection.
C2_TagVerified ==
    packet.some =>
       IF packet.mac = ClientTag(packet.index, packet.frame)
       THEN TRUE
       ELSE /\ packet.result # "ok"
            /\ replies = <<>>
            /\ pc = "Closed"

\* The message model's IDs do not hold the first octet of this payload.
UnknownId(payload) == payload # <<>> /\ payload[1] \notin KnownIds

\* C5: in every state of the connection a packet with an unknown message ID
\* ends the connection: it is the last packet read, nothing is written for
\* it and the task is over.
C5_UnknownIdFatal ==
    /\ \A i \in 1..Len(received) :
          UnknownId(received[i].payload) =>
             /\ i = Len(received)
             /\ received[i].msg = Err
             /\ ~packet.some
             /\ pc = "Closed"
             /\ result = "err"
             /\ Len(sent) \in {2, 4}
    /\ (packet.some /\ UnknownId(packet.payload)) =>
          /\ packet.msg = Err
          /\ replies = <<>>
          /\ pc = "Closed"

\* A packet with an unknown ID arrived under encryption.
C5_Witness ==
    /\ packet.some
    /\ packet.index >= 4
    /\ UnknownId(packet.payload)
    /\ pc = "Closed"

\* The message a phase of the handshake waits for.
Awaited ==
    [AwaitKexInit |-> "KexInit", AwaitKexEcdhInit |-> "KexEcdhInit", AwaitNewKeys |-> "NewKeys"]

\* The connection was closed after a Disconnect was written as the last
\* output.
DisconnectSent(outputs) ==
    /\ pc = "Closed"
    /\ outputs # <<>>
    /\ outputs[Len(outputs)].msg.type = "Disconnect"

\* C6: a well-formed message that the state of the session does not expect
\* is answered by a Disconnect message, then the connection is closed.
C6_DisconnectOnUnexpected ==
    /\ \A i \in 1..Len(received) :
          (received[i].result = "ok"
             /\ received[i].msg.type \notin {Awaited[received[i].phase], "Disconnect"})
          => DisconnectSent(sent)
    /\ (Handled /\ packet.msg.type \notin HandledTypes) => DisconnectSent(replies)

\* C7: a KexInit received after NewKeys is decoded, and fatal: the
\* connection is closed.
C7_RekeyFatal ==
    (Handled /\ packet.msg.type = "KexInit") => pc = "Closed"

\* The KexInit offers each algorithm the server supports, so that each is
\* the negotiated one.
OffersServerAlgorithms(m) ==
    /\ S_curve25519_sha256 \in Range(m.kex_algorithms)
    /\ S_ssh_ed25519 \in Range(m.server_host_key_algorithms)
    /\ S_aes128_ctr \in Range(m.encryption_algorithms_client_to_server)
    /\ S_aes128_ctr \in Range(m.encryption_algorithms_server_to_client)
    /\ S_hmac_sha2_256 \in Range(m.mac_algorithms_client_to_server)
    /\ S_hmac_sha2_256 \in Range(m.mac_algorithms_server_to_client)
    /\ S_none \in Range(m.compression_algorithms_client_to_server)
    /\ S_none \in Range(m.compression_algorithms_server_to_client)

\* C8: after a client KexInit that does not offer the server's algorithms
\* the connection is terminated and neither KexEcdhReply nor NewKeys is
\* sent.
C8_MismatchTerminates ==
    (ReceivedMessage(1, "KexInit") /\ ~OffersServerAlgorithms(received[1].msg)) =>
       /\ Len(sent) <= 2
       /\ Len(received) >= 2 => pc = "Closed"

\* The second field of a blob made of a string and a byte string.
SecondField(blob) == read_fields(Cursor(blob), <<"string", "bytes">>).vals[2]

\* The exchange hash as the client computes it from what it sent and what it
\* received, with its own shared secret.
ClientExchangeHash(reply, shared) ==
    sha256(write_bytes(Take(client_banner, Len(client_banner) - 2))
           \o write_bytes(Take(sent[1].msg.line, Len(sent[1].msg.line) - 2))
           \o write_bytes(received[1].payload)
           \o write_bytes(write_message(sent[2].msg).buf)
           \o write_bytes(reply.server_public_host_key)
           \o write_bytes(received[2].msg.client_public_key)
           \o write_bytes(reply.server_public_key)
           \o write_mpint(shared).buf)

\* What the client holding this secret finds in the server's reply.
ClientAccepts(client_secret, reply) ==
    \E shared \in {montgomery_mul(client_secret, reply.server_public_key)} :
       \E H \in {ClientExchangeHash(reply, shared)} :
          /\ ed25519_verify(SecondField(reply.server_public_host_key), H,
                            SecondField(reply.signature))
          /\ shared = shared_secret
          /\ exchange_hash = H
          /\ session_id = H
          /\ encryption_keys = compute_keys(shared, H, H, AesKeySize, AesIvSize, MacKeySize)

\* The server's outputs are KexInit, KexEcdhReply and NewKeys, and the client
\* whose KexEcdhInit was received accepts the reply.
KeyExchangeAgreed ==
    /\ Len(sent) = 4
    /\ sent[2].msg.type = "KexInit"
    /\ sent[3].msg.type = "KexEcdhReply"
    /\ sent[4].msg.type = "NewKeys"
    /\ \E client_secret \in ClientSecrets :
          /\ basepoint_mul(client_secret) = received[2].msg.client_public_key
          /\ ClientAccepts(client_secret, sent[3].msg)

\* C9: when the server has replied to the banner, KexInit and KexEcdhInit of
\* a client, its outputs are KexInit, KexEcdhReply and NewKeys; the
\* reply's signature verifies under the host key it declares over the
\* exchange hash H the client computes, the client's shared secret is the
\* server's, and H is the session id and the hash the keys derive from.
C9_KeyExchangeAgrees ==
    /\ Len(sent) >= 3 => Len(sent) = 4 /\ session_id = exchange_hash /\ session_id # <<>>
    /\ pc = "AwaitNewKeys" => KeyExchangeAgreed

\* The server has replied to a key exchange.
C9_Witness ==
    /\ pc = "AwaitNewKeys"
    /\ Len(sent) = 4
    /\ session_id # <<>>
    /\ ReceivedMessage(2, "KexEcdhInit")

\* C10: for a ChannelOpen the main loop records the channel in its channel
\* map and writes ChannelOpenConfirmation, ChannelSuccess and a ChannelData
\* with the terminal's initial screen, in this order.
C10_ChannelOpened ==
    (Handled /\ packet.msg.type = "ChannelOpen") =>
       /\ "channels" \in DOMAIN conn
       /\ Len(replies) = 3
       /\ replies[1].msg.type = "ChannelOpenConfirmation"
       /\ replies[2].msg.type = "ChannelSuccess"
       /\ replies[3].msg.type = "ChannelData"
       /\ replies[3].msg.data = on_open

\* The messages written for the last packet, in order.
ReplyMessages == [i \in 1..Len(replies) |-> replies[i].msg]

\* C11: every ChannelOpenConfirmation the server writes advertises an
\* initial window size of 2 MiB and a maximum packet size of 32 KiB.
C11_WindowAdvertised ==
    \A i \in 1..Len(replies) :
       replies[i].msg.type = "ChannelOpenConfirmation" =>
          /\ replies[i].msg.initial_window_size = 2 * 1024 * 1024
          /\ replies[i].msg.maximum_packet_size = 32 * 1024

\* The window the connection keeps for the client's channel, if it keeps
\* one.
recipient_window_size(c) ==
    IF c.some /\ "channels" \in DOMAIN c /\ 0 \in DOMAIN c.channels
    THEN [some |-> TRUE, value |-> c.channels[0].recipient_window_size]
    ELSE [some |-> FALSE]

\* C12: once a channel is open, recipient_window_size is the client's
\* initial window size plus the bytes_to_add received minus the channel data
\* octets sent, and it is never below zero: no channel data is written
\* beyond the window.
C12_WindowRespected ==
    channel_window.opened =>
       /\ channel_window.sent <= channel_window.granted
       /\ recipient_window_size(conn) =
             [some |-> TRUE, value |-> channel_window.granted - channel_window.sent]

\* C13: for ChannelData of exactly 0x03 or 0x04 the terminal's closing octets
\* are written as ChannelData, then ChannelClose, and the connection is
\* dropped; for any other ChannelData the task does not fail and what is
\* written is at most one ChannelData on the same channel, never empty.
C13_CloseOnInterrupt ==
    (Handled /\ packet.msg.type = "ChannelData") =>
       IF packet.msg.data \in {<<3>>, <<4>>}
       THEN /\ ReplyMessages =
                 <<[type |-> "ChannelData",
                    recipient_channel |-> packet.msg.recipient_channel,
                    data |-> on_close],
                   [type |-> "ChannelClose",
                    recipient_channel |-> packet.msg.recipient_channel]>>
            /\ pc = "Closed"
       ELSE /\ result # "err"
            /\ Len(replies) <= 1
            /\ \A i \in 1..Len(replies) :
                  /\ replies[i].msg.type = "ChannelData"
                  /\ replies[i].msg.recipient_channel = packet.msg.recipient_channel
                  /\ replies[i].msg.data # <<>>

\* C14: a ChannelEof handled by the main loop is answered with a
\* ChannelClose for the same channel.
C14_EofAnswered ==
    (Handled /\ packet.msg.type = "ChannelEof") =>
       ReplyMessages = <<[type |-> "ChannelClose",
                          recipient_channel |-> packet.msg.recipient_channel]>>

\* C15: a ChannelRequest of type exec or shell is answered with
\* ChannelSuccess for its channel; a pty-req or window-change resizes the
\* terminal to the requested columns and rows and the render is written
\* as ChannelData.
C15_ChannelRequestAnswered ==
    (Handled /\ packet.msg.type = "ChannelRequest") =>
       IF packet.msg.request_type \in {S_exec, S_shell}
       THEN ReplyMessages = <<[type |-> "ChannelSuccess",
                               recipient_channel |-> packet.msg.recipient_channel]>>
       ELSE /\ terminal_session.width = packet.msg.extra.width_columns
            /\ terminal_session.height = packet.msg.extra.height_rows
            /\ ReplyMessages = <<[type |-> "ChannelData",
                                  recipient_channel |-> packet.msg.recipient_channel,
                                  data |-> page_rendered(terminal_session)]>>

\* C16: a UserauthRequest is answered with exactly one UserauthSuccess,
\* whatever it carries, and never with UserauthFailure; a ServiceRequest
\* for ssh-userauth is answered with ServiceAccept, one for any other
\* service ends the connection.
C16_AnyCredentialsAccepted ==
    /\ \A i \in 1..Len(replies) : replies[i].msg.type # "UserauthFailure"
    /\ (Handled /\ packet.msg.type = "UserauthRequest") =>
          /\ ReplyMessages = <<[type |-> "UserauthSuccess"]>>
          /\ result # "err"
    /\ (Handled /\ packet.msg.type = "ServiceRequest") =>
          IF packet.msg.service_name = S_ssh_userauth
          THEN /\ ReplyMessages = <<[type |-> "ServiceAccept",
                                     service_name |-> S_ssh_userauth]>>
               /\ result # "err"
          ELSE /\ replies = <<>>
               /\ pc = "Closed"
               /\ result = "err"

\* A password UserauthRequest was answered.
C16_Witness ==
    /\ Handled
    /\ packet.msg.type = "UserauthRequest"
    /\ packet.msg.authentication_method = S_password
    /\ Len(replies) = 1
    /\ replies[1].msg.type = "UserauthSuccess"

\* C33: a ChannelData packet the server writes on the channel the client
\* opened carries at most the maximum packet size the client gave for it.
C33_ChunkedToPacketSize ==
    channel_window.opened =>
       \A i \in 1..Len(replies) :
          replies[i].msg.type = "ChannelData" =>
             Len(replies[i].msg.data) <= channel_window.maximum_packet_size

\* A read of a packet with this header ended in an error: no panic, no
\* payload, no length below zero, and the connection closed.
HeaderRefused(read_of) ==
    /\ read_of.result = "err"
    /\ read_of.payload = <<>>
    /\ pc = "Closed" /\ result # "panic"

\* C37: a packet whose header is ill-formed (packet_length 0, or
\* padding_length + 1 greater than packet_length) makes read_payload return
\* an error that closes the connection: it does not panic, the payload
\* length does not go below zero, and no payload is given.
C37_IllFormedHeaderRefused ==
    /\ \A i \in 1..Len(received) :
          received[i].frame \in IllFormedFrames => HeaderRefused(received[i])
    /\ (packet.some /\ packet.frame \in IllFormedFrames) => HeaderRefused(packet)

(***************************************************************************)
(* Properties of the host key.                                             *)
(***************************************************************************)
\* The host key a loaded file gives.
KeyOfFile(file) == parse_keypair(file.bytes).key

\* C17: the host key is generated only when the key file is absent and is
\* reused afterwards, so that every connection task, also those that load
\* it concurrently on first run, gets the same key, and no task finds the
\* file missing or partly written.
C17_HostKeyPersistent ==
    /\ \A t \in Loaders : loader.task[t].pc # "panicked"
    /\ \A t, u \in Loaders :
          (loader.task[t].pc = "loaded" /\ loader.task[u].pc = "loaded")
             => loader.task[t].key = loader.task[u].key
    /\ loader.at_start.exists =>
          /\ loader.file = loader.at_start
          /\ \A t \in Loaders :
                loader.task[t].pc = "loaded" => loader.task[t].key = KeyOfFile(loader.at_start)

(***************************************************************************)
(* Properties of the terminal session.                                     *)
(***************************************************************************)
Pressed(keys) ==
    term.watched /\ term.event.kind = "keys" /\ term.event.keys = keys

\* The number of links on the session's page
LinkCount(ts) == Len(page(ts).links)

\* C18: Tab moves the focus to the next link of the current page and
\* Shift-Tab to the one before, both around the ends, and to the first
\* link when there was no focus; after any events the focus is absent or
\* smaller than the number of links of the current page, and no handler
\* fails on a page without links.
C18_FocusWithinLinks ==
    term # Idle =>
       /\ ~term.panicked
       /\ \/ term.ts.link_index = NoLink
          \/ term.ts.link_index \in 0..(LinkCount(term.ts) - 1)
       /\ Pressed(<<9>>) =>
             term.ts.link_index =
                IF term.before.link_index = NoLink THEN 0
                ELSE (term.before.link_index + 1) % LinkCount(term.before)
       /\ Pressed(<<27, 91, 90>>) =>
             term.ts.link_index =
                IF term.before.link_index = NoLink THEN 0
                ELSE (term.before.link_index - 1) % LinkCount(term.before)

\* Shift-Tab on the first of three links went around to the last.
C18_Witness ==
    /\ term # Idle
    /\ Pressed(<<27, 91, 90>>)
    /\ term.before.link_index = 0
    /\ term.ts.link_index = 2
    /\ LinkCount(term.ts) = 3

\* The locations of the links of an element, in the order of the document.
RECURSIVE link_locations(_)
RECURSIVE each_link_locations(_, _)
link_locations(element) ==
    CASE element.kind = "Text" -> <<>>
      [] element.kind = "Link" ->
            <<element.location>> \o link_locations(element.inner)
      [] element.kind \in {"Rectangle", "Container"} ->
            each_link_locations(element.elements, 1)
      [] OTHER -> link_locations(element.inner)

each_link_locations(elements, i) ==
    IF i > Len(elements) THEN <<>>
    ELSE link_locations(elements[i]) \o each_link_locations(elements, i + 1)

PageLinkLocations(ts) ==
    each_link_locations(page_of(ts.location, ts.site_data).elements, 1)

\* C19: Enter with the focus on the i-th link makes that link's location
\* the session's, with scroll 0 and no focus, and returns the render of the
\* new page; Enter without focus returns no octets and leaves location and
\* focus as they were.
C19_EnterFollowsFocus ==
    (term # Idle /\ Pressed(<<13>>)) =>
       IF term.before.link_index # NoLink
       THEN /\ term.before.link_index + 1 <= Len(PageLinkLocations(term.before))
            /\ term.ts.location = PageLinkLocations(term.before)[term.before.link_index + 1]
            /\ term.ts.scroll = 0
            /\ term.ts.link_index = NoLink
            /\ term.out # <<>>
            /\ term.out = page_rendered(term.ts)
       ELSE /\ term.out = <<>>
            /\ term.ts.location = term.before.location
            /\ term.ts.link_index = term.before.link_index

\* Enter on the third link of the scrolled blog page opened the second post.
C19_Witness ==
    /\ term # Idle
    /\ Pressed(<<13>>)
    /\ term.before.location = Blog
    /\ term.before.link_index = 2
    /\ term.before.scroll > 0
    /\ term.ts.location = BlogPost("short")

\* The most a session can be scrolled: what of its page is below one window
MaxScroll(ts) == Max(0, page(ts).page_height - ts.height)

Scrolled(ts, scroll) == Min(Max(scroll, 0), MaxScroll(ts))

\* C20: after every event the scroll is at least 0 and at most what of the
\* page is below one window; the arrows and the wheel move it by 2 and the
\* page keys by the height of the window, up to those ends; and a page is
\* rendered at most once more when the clamp lowers the scroll.
C20_ScrollClamped ==
    term # Idle =>
       /\ ~term.panicked
       /\ term.ts.scroll >= 0
       /\ term.ts.scroll <= MaxScroll(term.ts)
       /\ term.renders <= 2
       /\ (Pressed(<<27, 91, 66>>) \/ Pressed(mouse_keys(<<54, 53>>, 1, 1, 77))) =>
             term.ts.scroll = Scrolled(term.ts, term.before.scroll + 2)
       /\ (Pressed(<<27, 91, 65>>) \/ Pressed(mouse_keys(<<54, 52>>, 1, 1, 77))) =>
             term.ts.scroll = Scrolled(term.ts, term.before.scroll - 2)
       /\ Pressed(<<27, 91, 54, 126>>) =>
             term.ts.scroll = Scrolled(term.ts, term.before.scroll + term.ts.height)
       /\ Pressed(<<27, 91, 53, 126>>) =>
             term.ts.scroll = Scrolled(term.ts, term.before.scroll - term.ts.height)

\* Page down near the end of a page: the clamp lowered the scroll to the
\* end and the page was rendered once more.
C20_Witness ==
    /\ term # Idle
    /\ Pressed(<<27, 91, 54, 126>>)
    /\ term.ts.height > 0
    /\ term.before.scroll + term.ts.height > MaxScroll(term.ts)
    /\ term.ts.scroll = MaxScroll(term.ts)
    /\ term.ts.scroll > term.before.scroll
    /\ term.renders = 2

(***************************************************************************)
(* Properties of the quote of the day                                      *)
(***************************************************************************)
\* How many datagrams arrived in the first i arrivals
RECURSIVE ArrivedBy(_, _)
ArrivedBy(arrived, i) ==
    IF i = 0 THEN 0 ELSE ArrivedBy(arrived, i - 1) + arrived[i].count

\* The arrival the n-th datagram is part of
ArrivalOf(arrived, n) ==
    CHOOSE j \in 1..Len(arrived) : ArrivedBy(arrived, j - 1) < n /\ n <= ArrivedBy(arrived, j)

\* The datagrams after the n-th, which is part of arrival j, that arrived
\* less than a window after it: is there one, and is there one that got
\* no reply
ArrivedAfter(arrived, n, j) ==
    {k \in j..Len(arrived) :
        /\ arrived[k].at - arrived[j].at < RateWindow
        /\ k = j => n < ArrivedBy(arrived, j)}

\* C23: once 121 datagrams have arrived within 60 s, one of the datagrams
\* that arrive in the 60 s after the last of them gets no reply.
C23_DroppedAfter121 ==
    udp # Idle =>
       \A i \in 1..Len(udp.arrived) : \A first \in 1..udp.arrived[i].count :
          LET last == ArrivedBy(udp.arrived, i - 1) + first + MaxKept
          IN  last <= ArrivedBy(udp.arrived, Len(udp.arrived)) =>
                 LET j == ArrivalOf(udp.arrived, last)
                 IN  (/\ udp.arrived[j].at - udp.arrived[i].at < RateWindow
                      /\ udp.now - udp.arrived[j].at >= RateWindow
                      /\ ArrivedAfter(udp.arrived, last, j) # {})
                     => \E k \in ArrivedAfter(udp.arrived, last, j) :
                           udp.arrived[k].answered < udp.arrived[k].count

\* How long no datagram had arrived when the last ones did
QuietBefore(arrived) ==
    IF Len(arrived) = 1 THEN arrived[1].at
    ELSE arrived[Len(arrived)].at - arrived[Len(arrived) - 1].at

\* C24: a datagram that arrives after 120 s in which none arrived is
\* answered, with the message as it is then, whatever the limiter's queue
\* and back-off were.
C24_ResumedAfterQuiet ==
    [][(/\ udp # Idle
        /\ Len(udp'.arrived) > Len(udp.arrived)
        /\ QuietBefore(udp'.arrived) >= 2 * RateWindow)
       => /\ udp'.arrived[Len(udp'.arrived)].answered >= 1
          /\ udp'.reply = udp.message]_vars

\* Datagrams answered after two minutes of quiet that followed a back-off
\* with the queue full.
C24_Witness ==
    /\ udp # Idle /\ Len(udp.arrived) >= 3
    /\ QuietBefore(udp.arrived) >= 2 * RateWindow
    /\ udp.arrived[Len(udp.arrived) - 1].answered < udp.arrived[Len(udp.arrived) - 1].count
    /\ udp.arrived[Len(udp.arrived)].answered >= 1

\* C38: the queue of timestamps holds at most 121 entries, after every
\* datagram, and a datagram that arrives while a back-off is in force gets
\* no reply and adds no timestamp.
C38_QueueBounded ==
    udp # Idle =>
       /\ Len(udp.limiter.udp_request_timestamps) <= MaxKept + 1
       /\ \A i \in 1..Len(udp.arrived) :
             /\ udp.arrived[i].kept <= MaxKept + 1
             /\ udp.arrived[i].limited =>
                   udp.arrived[i].answered = 0 /\ udp.arrived[i].same

\* The queue holds 121 timestamps, and datagrams have met a back-off.
C38_Witness ==
    /\ udp # Idle
    /\ \E i \in 1..Len(udp.arrived) : udp.arrived[i].kept = MaxKept + 1
    /\ udp.arrived # <<>> /\ udp.arrived[Len(udp.arrived)].limited
    /\ udp.arrived[Len(udp.arrived)].count = MaxKept

\* The replies to the datagrams that arrived from arrival i to arrival j
RECURSIVE Answered(_, _, _)
Answered(arrived, i, j) ==
    IF i > j THEN 0 ELSE arrived[i].answered + Answered(arrived, i + 1, j)

\* C39: the replies sent within any span of time shorter than 60 s are at
\* most 121, whatever the datagrams and the back-offs.
C39_RepliesCapped ==
    udp # Idle =>
       \A i \in 1..Len(udp.arrived) : \A j \in i..Len(udp.arrived) :
          udp.arrived[j].at - udp.arrived[i].at < RateWindow =>
             Answered(udp.arrived, i, j) <= MaxKept + 1

\* 121 replies were sent within less than 60 s, and the datagrams that
\* came next within that span got none.
C39_Witness ==
    /\ udp # Idle /\ Len(udp.arrived) >= 3
    /\ udp.arrived[3].at - udp.arrived[1].at < RateWindow
    /\ Answered(udp.arrived, 1, 2) = MaxKept + 1
    /\ udp.arrived[3].answered = 0

\* The secret of a POST is the trimmed contents of the secret file, and
\* neither is empty.
SecretGiven(post) ==
    /\ post.secret.some /\ post.secret.value # <<>>
    /\ post.expected_secret # <<>>
    /\ post.secret.value = trim(post.expected_secret)

\* C25: a POST to /qotd replaces the message only when its secret is the
\* trimmed contents of the secret file; with a wrong, missing or empty
\* secret, or a missing or empty secret file, the reply is 403 and the
\* message in memory and the message file are as before.
C25_ReplacedOnlyWithSecret ==
    (qotd # Idle /\ qotd.last.kind = "post" /\ ~SecretGiven(qotd.last)) =>
       /\ qotd.last.status = 403
       /\ qotd.last.message_after = qotd.last.message_before
       /\ qotd.last.file_after = qotd.last.file_before

\* C26: after a POST with body B was answered 200 the message is
\* "Quote of the day:\n" and B, with a line feed appended only if B does
\* not end in one, and a TCP connection accepted after that and before the
\* next POST is answered 200 receives that message, whole.
C26_ReadersSeePosted ==
    qotd # Idle =>
       /\ (qotd.last.kind = "post" /\ qotd.last.status = 200) =>
             LET body == qotd.last.body
             IN  \/ qotd.last.message_after = QotdPrefix \o body
                 \/ /\ qotd.last.message_after = QotdPrefix \o body \o <<10>>
                    /\ ~(body # <<>> /\ body[Len(body)] = 10)
       /\ \A i \in 1..Len(qotd.conns) :
             (qotd.conns[i].received.some /\ qotd.conns[i].after.some) =>
                qotd.conns[i].received.response = qotd.conns[i].after.message

\* C40: whenever no POST /qotd is in progress and no write of the message
\* file has failed, the message file holds the message in memory (a missing
\* file counting as an empty one), also after several accepted POSTs were
\* handled at the same time; and a POST whose write failed left the message
\* in memory as it was.
C40_FileIsMessage ==
    qotd # Idle =>
       /\ (qotd.writing = <<>> /\ ~qotd.failed) =>
             read_or_default(qotd.message_file) = qotd.message
       /\ (qotd.last.kind = "post" /\ qotd.last.status = 0) =>
             qotd.last.message_after = qotd.last.message_before

(***************************************************************************)
(* Properties of the listeners                                             *)
(***************************************************************************)
\* C27: when the bind of one listener fails, that listener stops and no
\* other: the process stays alive and every other serve goes on.
C27_BindFailureStopsOneListener ==
    process # Idle =>
       \A protocol \in Protocols :
          process.serve[protocol] \in {"returned", "panicked"} =>
             /\ process.alive
             /\ \A other \in Protocols \ {protocol} :
                   process.serve[other] \notin {"returned", "panicked"}

(***************************************************************************)
(* Properties of the Gemini text                                           *)
(***************************************************************************)
\* Every "=>" starts a line and is followed by one space and a target.
LinksStartLines(str) ==
    \A i \in 1..(Len(str) - 1) :
       (str[i] = 61 /\ str[i + 1] = 62) =>
          /\ i = 1 \/ str[i - 1] = 10
          /\ i + 3 <= Len(str) /\ str[i + 2] = 32 /\ str[i + 3] \notin {32, 10}

\* The lines of the links of the parts, in their order
RECURSIVE LinkLinesOf(_)
LinkLinesOf(parts) ==
    IF parts = <<>> THEN <<>>
    ELSE IF parts[1].kind = "Link"
    THEN <<link_line_open([text |-> parts[1].t, href |-> queued_href(parts[1].href)])>>
         \o LinkLinesOf(Tail(parts))
    ELSE LinkLinesOf(Tail(parts))

\* Those of the lines that are among the given ones
RECURSIVE Among(_, _)
Among(str_lines, given) ==
    IF str_lines = <<>> THEN <<>>
    ELSE IF \E k \in 1..Len(given) : given[k] = str_lines[1]
    THEN <<str_lines[1]>> \o Among(Tail(str_lines), given)
    ELSE Among(Tail(str_lines), given)

\* C30: in the Gemini text of a post every "=>" starts a line of its own
\* and is followed by one space and a target, every Link part has its
\* "=> href text" line, in the order of the parts, and the last line is
\* "=> /blog ⬅ Back".
C30_LinkLines ==
    (gemtext # Idle /\ gemtext.done) =>
       /\ LinksStartLines(gemtext.content)
       /\ Among(lines(gemtext.content), LinkLinesOf(gemtext.parts))
             = LinkLinesOf(gemtext.parts)
       /\ lines(gemtext.content)[Len(lines(gemtext.content))] = G_back
       /\ gemtext.content[Len(gemtext.content)] = 10

(***************************************************************************)
(* Properties of the Gemini and Gopher requests                            *)
(***************************************************************************)
\* The response starts with two digits, a space, and a line that ends in
\* CR LF.
StatusLine(response) ==
    /\ Len(response) >= 5
    /\ response[1] \in 48..57 /\ response[2] \in 48..57 /\ response[3] = 32
    /\ \E i \in 4..(Len(response) - 1) :
          /\ response[i] = 13 /\ response[i + 1] = 10
          /\ \A j \in 4..(i - 1) : response[j] \notin {10, 13}

\* C28: a Gemini request with a valid URL for an unknown slug, or for a
\* media path that is not served, is answered "51 Not found\r\n", and
\* every Gemini response starts with a status line.
C28_GeminiStatusLine ==
    (media # Idle /\ media.last.protocol = "gemini") =>
       /\ StatusLine(media.last.responded.response)
       /\ (/\ media.last.checked
           /\ \/ Len(media.last.slug) > 1 /\ ~media.last.responded.served
              \/ /\ Len(media.last.slug) = 1
                 /\ media.last.slug[1] \notin DOMAIN posts_gmi \cup {"", "blog", "projects"})
          => media.last.responded.response = R_not_found

\* Every component of media/<path> is a normal one
AllNormal(slug) ==
    \A i \in 1..Len(components(media_joined(slug))) :
       components(media_joined(slug))[i].kind = "Normal"

\* C29: Gemini and Gopher serve a media request exactly when every
\* component of media/<path> is normal and the file exists, and open
\* nothing outside the media directory.
C29_MediaOnly ==
    (media # Idle /\ media.last.protocol \in {"gemini", "gopher"} /\ media.last.checked
     /\ Len(media.last.slug) > 1) =>
       /\ media.last.responded.served <=>
             /\ AllNormal(media.last.slug)
             /\ opened_place(media_joined(media.last.slug))
                   \in media.fs.dirs \cup media.fs.files
       /\ media.last.responded.opened.some =>
             /\ Len(media.last.responded.opened.place) >= 2
             /\ Take(media.last.responded.opened.place, 2) = <<"srv", "media">>

(***************************************************************************)
(* Properties of the server's sequence number                              *)
(***************************************************************************)
\* C31: the sequence number in the tag of a packet the server writes is the
\* number of packets it has written before on the connection modulo 2^32
\* (3 for the first encrypted packet), the number kept for the next packet
\* is one more modulo 2^32, and the write does not fail.
C31_SequenceNumber ==
    (sequence # Idle /\ sequence.last.some) =>
       /\ sequence.last.seq = wide_u32(sequence.last.before)
       /\ sequence.last.mac =
             hmac_sha256(sequence.keys.integrity_key_server_to_client,
                         wide_be(wide_u32(sequence.last.before)) \o sequence.last.frame)
       /\ sequence.pc # "Panicked"
       /\ sequence.sequence_number_server_to_client = wide_u32(sequence.written)

(***************************************************************************)
(* Properties of write_payload                                             *)
(***************************************************************************)
\* C32: the packet write_payload builds has a total length, packet_length
\* + 4, that is a multiple of max(8, cipher block size); its padding_length
\* octet is at least 4 and is the number of padding octets that follow the
\* payload; and packet_length = payload length + padding_length + 1.
C32_PaddingPolicy ==
    (framed # Idle /\ framed.pc = "written") =>
       /\ Len(framed.data) >= 5
       /\ Len(framed.data) = u32_from_be(Take(framed.data, 4)) + 4
       /\ Len(framed.data) % Max(8, framed.cipher_block_key_size) = 0
       /\ framed.data[5] >= 4
       /\ Len(framed.data) = 5 + Len(framed.payload) + framed.data[5]
       /\ u32_from_be(Take(framed.data, 4)) = Len(framed.payload) + framed.data[5] + 1
       /\ SubSeq(framed.data, 6, 5 + Len(framed.payload)) = framed.payload

\* A packet whose padding was raised by the block size to reach 4.
C32_Witness ==
    /\ framed # Idle /\ framed.pc = "written"
    /\ framed.cipher_block_key_size = 16
    /\ framed.data[5] > 16

(***************************************************************************)
(* Properties of write_mpint                                               *)
(***************************************************************************)
\* The byte string without its leading zero octets
RECURSIVE Stripped(_)
Stripped(s) == IF s # <<>> /\ s[1] = 0 THEN Stripped(Tail(s)) ELSE s

\* The mpint of the byte string: the length, a zero octet when the first
\* octet that remains has its high bit set, and the octets that remain.
MpintOf(s) ==
    IF Stripped(s) # <<>> /\ Stripped(s)[1] >= 128
    THEN u32_be(Len(Stripped(s)) + 1) \o <<0>> \o Stripped(s)
    ELSE u32_be(Len(Stripped(s))) \o Stripped(s)

\* C34: for every byte string, the empty one and those of zero octets only
\* included, write_mpint returns without a panic and writes the mpint of
\* the string.
C34_MpintWritten ==
    (mpint # Idle /\ mpint.pc = "written") =>
       /\ ~mpint.written.panicked
       /\ mpint.written.buf = MpintOf(mpint.s)

(***************************************************************************)
(* Properties of the client's identification line                          *)
(***************************************************************************)
\* C36: however the octets the client sends are divided among the reads of
\* the socket, the client identification is the octets before the first
\* CR LF, and the octets after it are read as the first packet.
C36_ClientIdExact ==
    (banner # Idle /\ banner.pc # "ReadClientId") =>
       /\ banner.id.result = "ok"
       /\ banner.id.client_id = S_client_banner
       /\ banner.first.result # "none" =>
             /\ banner.first.result = "ok"
             /\ banner.first.msg = ClientKexInitMatching

(***************************************************************************)
(* Properties of the packets on the socket                                 *)
(***************************************************************************)
\* C35: a read of a packet takes from the socket the octets of that packet
\* and no more: the length field, packet_length octets, and the 32 octets
\* of the tag when the packet is tagged.  What stays on the socket is the
\* packets that follow, also when the one read was the last in the clear.
C35_ExactlyOnePacket ==
    (wire # Idle /\ wire.last.result # "none") =>
       /\ wire.last.result = "ok"
       /\ wire.last.consumed = Len(wire.last.packet.octets)
       /\ wire.last.consumed =
             4 + (Len(wire.last.payload) + 1
                  + write_payload_padding_length(
                       Len(wire.last.payload),
                       IF wire.last.packet.tagged THEN AesKeySize ELSE NoBlockSize))
             + (IF wire.last.packet.tagged THEN MacLen ELSE 0)
       /\ wire.last.payload = wire.last.packet.payload
       /\ wire.stream = Flat(wire.unread)

\* The NewKeys was read in the clear while an encrypted packet was already
\* on the socket behind it.
C35_Witness ==
    /\ wire # Idle /\ wire.last.result = "ok"
    /\ wire.last.payload = P_new_keys /\ ~wire.last.packet.tagged
    /\ wire.unread # <<>> /\ wire.unread[1].tagged

(***************************************************************************)
(* Properties of the layout.                                               *)
(***************************************************************************)
\* C22: the page of a post of the site, drawn for any viewport, scroll and
\* focus, is drawn without a panic, and its octets are not empty and end
\* with the cursor-home sequence, written once.
C22_PostPageDrawn ==
    (drawn # Idle /\ drawn.page.some) =>
       /\ drawn.page.ok
       /\ ~drawn.page.out.empty
       /\ drawn.page.out.homes_at_end = 1

\* A post longer than the window, drawn again after the scroll was
\* clamped.
C22_Witness ==
    /\ drawn # Idle /\ drawn.page.some /\ drawn.page.ok
    /\ drawn.ctx.location.slug = "long" /\ drawn.ctx.height = 8
    /\ drawn.page.renders = 2 /\ drawn.page.ctx.scroll > 0

\* C21: no word a Text renders crosses the right edge of its enclosing
\* rectangle (every cell of the word is left of rect.left + rect.width),
\* and after a line feed the position is at the rectangle's left edge on a
\* later line.
C21_WordsWithinRectangle ==
    layout # Idle =>
       /\ \A k \in 1..Len(layout.words) :
             (layout.words[k].in_window /\ layout.words[k].length > 0) =>
                layout.words[k].x + layout.words[k].length
                   <= layout.parent_rect.left + layout.parent_rect.width
       /\ layout.last = NL =>
             /\ layout.pos.x = layout.parent_rect.left
             /\ layout.pos.y > layout.line_before

(***************************************************************************)
(* Properties of the record layer.                                         *)
(***************************************************************************)
\* The records read so far are the records written first, payload for
\* payload, and no read has failed.
RecordsRecovered ==
    /\ record.pc = "open"
    /\ Len(record.accepted) <= Len(record.written)
    /\ record.accepted = Take(record.written, Len(record.accepted))

SenderAdvanced ==
    record.writer.sequence_number_server_to_client =
       record.first_sequence_number + Len(record.written)

\* The sequence number the read side keeps, if it keeps one.
receiver_sequence_number(reader) ==
    IF "sequence_number_client_to_server" \in DOMAIN reader
    THEN [some |-> TRUE, value |-> reader.sequence_number_client_to_server]
    ELSE [some |-> FALSE]

ReceiverAdvanced ==
    receiver_sequence_number(record.reader) =
       [some |-> TRUE, value |-> record.first_sequence_number + Len(record.accepted)]

\* C3: a record built by the write path is accepted by the read path with
\* the payload it was built from, and the sender's and the receiver's
\* sequence numbers each advance by one.
C3_RecordRoundTrip ==
    Len(record.accepted) > 0 => RecordsRecovered /\ SenderAdvanced /\ ReceiverAdvanced

(***************************************************************************)
(* Properties of the codec.                                                *)
(***************************************************************************)
\* C4: for every message of the message model write_message returns a
\* payload, and read_message returns the message from it.
C4_MessageRoundTrip ==
    /\ codec.pc # "panicked"
    /\ codec.pc = "read" => codec.decoded = codec.message

====
